---- MODULE Spec2Model ----
(***************************************************************************)
(* A model of go-autobump's "update" command: runUpdate (cmd/update.go),   *)
(* UpdateDirect, UpdateIndirect and updateThroughDirectDep                 *)
(* (internal/updater), with the helpers of internal/gomod and              *)
(* internal/trivy they call.                                               *)
(*                                                                         *)
(* Go strings that the code inspects character by character (versions,     *)
(* module paths, lines of "go mod why") are sequences of one-character     *)
(* strings: "v1.0.0" is <<"v","1",".","0",".","0">>.  Vulnerability IDs    *)
(* are only compared for equality and stay TLA+ strings.  CVSS scores are  *)
(* in tenths (7.0 is 70).                                                  *)
(*                                                                         *)
(* The external tools (trivy, go get, go mod tidy, go mod why, go mod      *)
(* graph) are the environment: each call returns a result chosen from a    *)
(* small set.                                                              *)
(***************************************************************************)
EXTENDS Integers, Sequences, FiniteSets, TLC

VARIABLES
    cfg,          \* config.Config: AllowMajor, SkipTidy, DryRun, GenerateVEX, CVSSThreshold
    pc,           \* position of the single thread of control
    mi,           \* index into goModFiles of the manifest being processed (for-range, update.go:58)
    gomod,        \* go.mod of the current manifest: ModFile.Require is req, <<[Path, Version, Indirect]>>
    filtered,     \* filtered.Vulnerabilities of the current manifest (update.go:69)
    vi,           \* index into filtered of the finding being processed (for-range, update.go:79)
    unfixedVulns, \* update.go:56
    goModFiles,   \* result of DiscoverGoModFiles: [err, n], n the number of go.mod files
    scans,        \* history: result of the initial scan of each manifest so far, "ok" or "error"
    exitCode,     \* exit status of the process (part_000 main), -1 while it runs
    directDeps,   \* updateThroughDirectDep: result of FindDirectDependencyFor
    allDeps,      \* updateThroughDirectDep: merged, deduplicated candidates
    ci,           \* updateThroughDirectDep: index of the candidate in the for-range at indirect.go:101
    targetVersion, \* updateThroughDirectDep: targetVersion (indirect.go:135)
    ret,          \* value returned by UpdateDirect / UpdateIndirect, and the return statement
    vexInput,     \* the slice handed to vex.Generate, NotCalled before that
    \* history variables, per finding (reset when a finding starts)
    cmds,         \* the "go get" commands issued, in order: <<[pkg, version, declared, by, ok]>>
    tidy,         \* result of the latest "go mod tidy": none (not run), ok, failed
    nWhy,         \* number of "go mod why" runs (chain tracer consulted)
    verified,     \* "none": no go get has succeeded, no go mod tidy and no scan has run;
                  \* "stale": a go get has succeeded or go mod tidy has run, and no scan since;
                  \* else what the latest scan said of the finding: error, present, absent
    untidied,     \* a successful go get has not been followed by go mod tidy
    outcome,      \* what runUpdate reported for the finding: none/nofix/dryrun/updated/failed
    \* a single call of one function of the program, for the properties of
    \* the functions taken alone
    call          \* [fn, in, out, out2, done]: the function, its arguments, its result, the
                  \* result of the second step, the number of steps taken

vars == <<cfg, pc, mi, gomod, filtered, vi, unfixedVulns, goModFiles, scans, exitCode,
          directDeps, allDeps, ci,
          targetVersion, ret, vexInput, cmds, tidy, nWhy, verified, untidied, outcome, call>>

----------------------------------------------------------------------------
(* Bounds *)

\* manifests discovered by DiscoverGoModFiles
NumManifests == 2
\* longest list of vulnerabilities the initial scan of a manifest reports
MaxFindings == 1
\* longest list of vulnerabilities a verification scan reports
MaxRescan == 1

----------------------------------------------------------------------------
(* Strings *)

Digits == {"0", "1", "2", "3", "4", "5", "6", "7", "8", "9"}

DigitVal(c) ==
    CASE c = "0" -> 0 [] c = "1" -> 1 [] c = "2" -> 2 [] c = "3" -> 3 [] c = "4" -> 4
      [] c = "5" -> 5 [] c = "6" -> 6 [] c = "7" -> 7 [] c = "8" -> 8 [] c = "9" -> 9

\* strings.HasPrefix
HasPrefix(s, p) == Len(s) >= Len(p) /\ SubSeq(s, 1, Len(p)) = p

\* strings.TrimPrefix
TrimPrefix(s, p) == IF HasPrefix(s, p) THEN SubSeq(s, Len(p) + 1, Len(s)) ELSE s

\* strings.Index for a one-character separator, 1-based; 0 when absent (Go: -1)
Index(s, c) ==
    IF \E i \in 1..Len(s) : s[i] = c
    THEN CHOOSE i \in 1..Len(s) : s[i] = c /\ \A j \in 1..(i - 1) : s[j] # c
    ELSE 0

\* strings.Split(s, "/"): always at least one part
RECURSIVE Split(_, _)
Split(s, sep) ==
    LET i == Index(s, sep)
    IN IF i = 0 THEN <<s>>
       ELSE <<SubSeq(s, 1, i - 1)>> \o Split(SubSeq(s, i + 1, Len(s)), sep)

\* strings.Join(parts, "/")
RECURSIVE Join(_, _)
Join(parts, sep) ==
    IF Len(parts) = 0 THEN <<>>
    ELSE IF Len(parts) = 1 THEN parts[1]
    ELSE parts[1] \o <<sep>> \o Join(Tail(parts), sep)

\* strings.TrimSpace, for the white space that occurs in the model's lines
RECURSIVE TrimLeft(_)
TrimLeft(s) == IF Len(s) > 0 /\ s[1] = " " THEN TrimLeft(Tail(s)) ELSE s

RECURSIVE TrimRight(_)
TrimRight(s) ==
    IF Len(s) > 0 /\ s[Len(s)] = " " THEN TrimRight(SubSeq(s, 1, Len(s) - 1)) ELSE s

TrimSpace(s) == TrimRight(TrimLeft(s))

\* the value of a run of decimal digits
RECURSIVE DecimalValue(_)
DecimalValue(ds) ==
    IF Len(ds) = 0 THEN 0
    ELSE 10 * DecimalValue(SubSeq(ds, 1, Len(ds) - 1)) + DigitVal(ds[Len(ds)])

\* the longest prefix of s made of decimal digits
RECURSIVE DigitRun(_)
DigitRun(s) ==
    IF Len(s) > 0 /\ s[1] \in Digits THEN <<s[1]>> \o DigitRun(Tail(s)) ELSE <<>>

\* fmt.Sscanf(s, "%d", &major) with major initially 0: leading blanks are
\* skipped, one sign is accepted, then digits up to the first other character;
\* with no digit the scan fails and major stays 0.
ScanInt(s) ==
    LET t == TrimLeft(s)
        neg == Len(t) > 0 /\ t[1] = "-"
        u == IF Len(t) > 0 /\ t[1] \in {"+", "-"} THEN Tail(t) ELSE t
        run == DigitRun(u)
    IN IF Len(run) = 0 THEN 0
       ELSE IF neg THEN 0 - DecimalValue(run) ELSE DecimalValue(run)

----------------------------------------------------------------------------
(* internal/gomod: versions *)

Latest == <<"l", "a", "t", "e", "s", "t">>

\* an extractMajor that keeps the "v" prefix
extractMajorKeepsPrefix(version) ==
    LET idx == Index(version, ".")
        v2 == IF idx # 0 THEN SubSeq(version, 1, idx - 1) ELSE version
    IN ScanInt(v2)

extractMajor(version) ==
    LET v1 == TrimPrefix(version, <<"v">>)
        idx == Index(v1, ".")
        v2 == IF idx # 0 THEN SubSeq(v1, 1, idx - 1) ELSE v1
    IN ScanInt(v2)

\* a comparison that takes an equal major version for a bump
IsMajorVersionBumpOrEqual(oldVersion, newVersion) ==
    extractMajor(newVersion) >= extractMajor(oldVersion)

IsMajorVersionBump(oldVersion, newVersion) ==
    extractMajor(newVersion) > extractMajor(oldVersion)

\* a NormalizeVersion without the check for a "v" already there
NormalizeVersionNoPrefixCheck(version) ==
    IF version = Latest \/ version = <<>> THEN version
    ELSE IF Len(version) > 0 /\ (version[1] \in Digits \/ version[1] = "v")
         THEN <<"v">> \o version
    ELSE version

\* a NormalizeVersion without the check for a leading digit
NormalizeVersionNoDigitCheck(version) ==
    IF version = Latest \/ version = <<>> THEN version
    ELSE IF HasPrefix(version, <<"v">>) THEN version
    ELSE <<"v">> \o version

NormalizeVersion(version) ==
    IF version = Latest \/ version = <<>> THEN version
    ELSE IF HasPrefix(version, <<"v">>) THEN version
    ELSE IF Len(version) > 0 /\ version[1] \in Digits THEN <<"v">> \o version
    ELSE version

----------------------------------------------------------------------------
(* internal/gomod: the parsed go.mod.  req is ModFile.Require, a sequence *)
(* of [Path, Version, Indirect].                                           *)

\* Parser.GetVersion
GetVersion(req, pkgPath) ==
    IF \E i \in 1..Len(req) : req[i].Path = pkgPath
    THEN req[CHOOSE i \in 1..Len(req) :
                 req[i].Path = pkgPath /\ \A j \in 1..(i - 1) : req[j].Path # pkgPath].Version
    ELSE <<>>

\* Parser.IsDirectDependency
IsDirectDependency(req, pkgPath) ==
    \E i \in 1..Len(req) : req[i].Path = pkgPath /\ ~req[i].Indirect

IsDirectReq(r) == ~r.Indirect
IsIndirectReq(r) == r.Indirect

\* Parser.GetDirectDependencies / GetIndirectDependencies
GetDirectDependencies(req) == SelectSeq(req, IsDirectReq)
GetIndirectDependencies(req) == SelectSeq(req, IsIndirectReq)

----------------------------------------------------------------------------
(* internal/gomod: the chain oracle *)

\* FindDirectDependencyFor's loop over the lines of "go mod why -m": the
\* first line that is neither blank nor a comment is the main module, the
\* next such line is the one candidate.
RECURSIVE WhyScan(_, _)
WhyScan(lines, seenRoot) ==
    IF Len(lines) = 0 THEN <<>>
    ELSE LET line == TrimSpace(lines[1])
         IN IF line = <<>> \/ HasPrefix(line, <<"#">>) THEN WhyScan(Tail(lines), seenRoot)
            ELSE IF ~seenRoot THEN WhyScan(Tail(lines), TRUE)
            ELSE <<line>>

\* a loop without the break: every line after the main module is a candidate
RECURSIVE WhyScanAll(_, _)
WhyScanAll(lines, seenRoot) ==
    IF Len(lines) = 0 THEN <<>>
    ELSE LET line == TrimSpace(lines[1])
         IN IF line = <<>> \/ HasPrefix(line, <<"#">>) THEN WhyScanAll(Tail(lines), seenRoot)
            ELSE IF ~seenRoot THEN WhyScanAll(Tail(lines), TRUE)
            ELSE <<line>> \o WhyScanAll(Tail(lines), TRUE)

FindDirectDependencyForAllLines(why) ==
    IF why.err THEN [deps |-> <<>>, err |-> TRUE]
    ELSE [deps |-> WhyScanAll(why.lines, FALSE), err |-> FALSE]

\* FindDirectDependencyFor: why is the result of ModWhy, [err, lines]
FindDirectDependencyFor(why) ==
    IF why.err THEN [deps |-> <<>>, err |-> TRUE]
    ELSE [deps |-> WhyScan(why.lines, FALSE), err |-> FALSE]

----------------------------------------------------------------------------
(* internal/updater: candidates of the chain trace *)

\* getBasePath
getBasePath(path) ==
    LET parts == Split(path, "/")
        last == parts[Len(parts)]
    IN IF Len(last) > 1 /\ last[1] = "v" /\ last[2] \in Digits
       THEN Join(SubSeq(parts, 1, Len(parts) - 1), "/")
       ELSE path

\* extractNamespace
extractNamespace(modulePath) ==
    LET parts == Split(modulePath, "/")
    IN IF Len(parts) < 2 THEN <<>> ELSE Join(SubSeq(parts, 1, 2), "/")

\* the paths of the dependencies of deps that share the namespace
RECURSIVE InNamespace(_, _, _)
InNamespace(deps, namespace, skip) ==
    IF Len(deps) = 0 THEN <<>>
    ELSE LET rest == InNamespace(Tail(deps), namespace, skip)
         IN IF deps[1].Path \notin skip /\ extractNamespace(deps[1].Path) = namespace
            THEN <<deps[1].Path>> \o rest
            ELSE rest

\* a namespace fallback whose second pass keeps the vulnerable package
findRelatedDirectDependenciesNoSkip(parseOk, req, indirectPkg) ==
    IF ~parseOk THEN [deps |-> <<>>, err |-> TRUE]
    ELSE LET namespace == extractNamespace(indirectPkg)
             direct == InNamespace(GetDirectDependencies(req), namespace, {})
         IN IF namespace = <<>> THEN [deps |-> <<>>, err |-> FALSE]
            ELSE IF Len(direct) # 0 THEN [deps |-> direct, err |-> FALSE]
            ELSE [deps |-> InNamespace(GetIndirectDependencies(req), namespace, {}),
                  err |-> FALSE]

\* findRelatedDirectDependencies; parseOk is whether gomod.NewParser succeeded
findRelatedDirectDependencies(parseOk, req, indirectPkg) ==
    IF ~parseOk THEN [deps |-> <<>>, err |-> TRUE]
    ELSE LET namespace == extractNamespace(indirectPkg)
             direct == InNamespace(GetDirectDependencies(req), namespace, {})
         IN IF namespace = <<>> THEN [deps |-> <<>>, err |-> FALSE]
            ELSE IF Len(direct) # 0 THEN [deps |-> direct, err |-> FALSE]
            ELSE [deps |-> InNamespace(GetIndirectDependencies(req), namespace, {indirectPkg}),
                  err |-> FALSE]

\* importPathToModulePath's loop: the longest dependency path that importPath
\* starts with, up to a "/" or the end of importPath
RECURSIVE BestMatch(_, _, _)
BestMatch(deps, importPath, best) ==
    IF Len(deps) = 0 THEN best
    ELSE LET p == deps[1].Path
             hit == /\ HasPrefix(importPath, p)
                    /\ (Len(importPath) = Len(p) \/ importPath[Len(p) + 1] = "/")
                    /\ Len(p) > Len(best)
         IN BestMatch(Tail(deps), importPath, IF hit THEN p ELSE best)

\* importPathToModulePath
importPathToModulePath(parseOk, req, importPath) ==
    IF ~parseOk THEN importPath
    ELSE LET bestMatch == BestMatch(GetDirectDependencies(req) \o GetIndirectDependencies(req),
                                    importPath, <<>>)
         IN IF bestMatch # <<>> THEN bestMatch ELSE importPath

SeqRange(s) == {s[i] : i \in 1..Len(s)}

\* one merge loop of updateThroughDirectDep (indirect.go:79-94): acc is
\* allDeps, whose elements are the keys of seenModules.  Every pass calls
\* importPathToModulePath, which reads go.mod anew: parseOks[i] is whether
\* NewParser succeeded in the pass for deps[i]
RECURSIVE MergeDeps(_, _, _, _)
MergeDeps(parseOks, req, deps, acc) ==
    IF Len(deps) = 0 THEN acc
    ELSE LET modulePath == importPathToModulePath(parseOks[1], req, deps[1])
         IN MergeDeps(Tail(parseOks), req, Tail(deps),
                      IF modulePath \in SeqRange(acc) THEN acc ELSE Append(acc, modulePath))

\* a merge that takes the namespace candidates first
MergedCandidatesRelatedFirst(directOks, relatedOks, req, direct, related) ==
    MergeDeps(directOks, req, direct, MergeDeps(relatedOks, req, related, <<>>))

\* allDeps of updateThroughDirectDep: the loop over the dependencies go mod
\* why named, then the loop over the namespace candidates
MergedCandidates(directOks, relatedOks, req, direct, related) ==
    MergeDeps(relatedOks, req, related, MergeDeps(directOks, req, direct, <<>>))

\* the results of the NewParser calls of a loop over deps, one per pass
ParseResults(deps) == [1..Len(deps) -> BOOLEAN]

\* findDirectDepVersionWithFix: the version is "latest" whatever the graph holds
findDirectDepVersionWithFix(graphOk) ==
    IF ~graphOk THEN [version |-> <<>>, err |-> TRUE]
    ELSE [version |-> Latest, err |-> FALSE]

----------------------------------------------------------------------------
(* internal/trivy *)

\* a filter with an exclusive bound
RECURSIVE FilterVulnsExclusive(_, _)
FilterVulnsExclusive(vulns, threshold) ==
    IF Len(vulns) = 0 THEN <<>>
    ELSE IF vulns[1].CVSSScore > threshold
         THEN <<vulns[1]>> \o FilterVulnsExclusive(Tail(vulns), threshold)
         ELSE FilterVulnsExclusive(Tail(vulns), threshold)

RECURSIVE FilterVulns(_, _)
FilterVulns(vulns, threshold) ==
    IF Len(vulns) = 0 THEN <<>>
    ELSE IF vulns[1].CVSSScore >= threshold
         THEN <<vulns[1]>> \o FilterVulns(Tail(vulns), threshold)
         ELSE FilterVulns(Tail(vulns), threshold)

\* a filter whose loop stops one short of the last vulnerability it keeps
FilterByCVSSDropsLast(vulns, threshold) ==
    LET kept == FilterVulns(vulns, threshold)
    IN IF Len(kept) = 0 THEN kept ELSE SubSeq(kept, 1, Len(kept) - 1)

\* FilterByCVSS, on the Vulnerabilities of a ScanResult
FilterByCVSS(vulns, threshold) == FilterVulns(vulns, threshold)

\* a check loop that compares the vulnerability ID only
StillPresentByID(vulns, vuln) ==
    \E i \in 1..Len(vulns) : vulns[i].VulnerabilityID = vuln.VulnerabilityID

\* the check loops at indirect.go:46-52 and 116-121, and VerifyVulnerabilityFixed
StillPresent(vulns, vuln) ==
    \E i \in 1..Len(vulns) :
        vulns[i].VulnerabilityID = vuln.VulnerabilityID /\ vulns[i].PkgName = vuln.PkgName

----------------------------------------------------------------------------
(* The inputs: module paths, versions, scanner findings, go.mod files and  *)
(* "go mod why" outputs the environment may produce.                       *)

PkgA == <<"g", "/", "o", "/", "a">>
PkgE == <<"g", "/", "o", "/", "e">>
PkgD == <<"g", "/", "s", "/", "d">>
PkgV == <<"g", "/", "s", "/", "v">>
PkgW == <<"g", "/", "s", "/", "w">>
\* a package of module g/s/d
ImportDP == <<"g", "/", "s", "/", "d", "/", "p">>
\* the main module
RootModule == <<"m">>

V100 == <<"v", "1", ".", "0", ".", "0">>
V101 == <<"v", "1", ".", "0", ".", "1">>
B101 == <<"1", ".", "0", ".", "1">>
V200 == <<"v", "2", ".", "0", ".", "0">>
B200 == <<"2", ".", "0", ".", "0">>

\* config.Default: CVSSThreshold 7.0
DefaultCVSSThreshold == 70

Vuln(id, pkg, installed, fixed, indirect, score) ==
    [VulnerabilityID |-> id, PkgName |-> pkg, InstalledVersion |-> installed,
     FixedVersion |-> fixed, Indirect |-> indirect, CVSSScore |-> score]

VulnUniverse ==
    { Vuln("CVE-1", PkgA, V100, V101, FALSE, 90),
      Vuln("CVE-2", PkgA, V100, B200, FALSE, 75),
      Vuln("CVE-3", PkgV, V100, <<>>, TRUE, 80),
      Vuln("CVE-4", PkgV, V100, B101, TRUE, 70),
      Vuln("CVE-5", PkgV, V100, V200, TRUE, 98),
      Vuln("CVE-6", PkgA, V100, <<>>, FALSE, 80),
      Vuln("CVE-4", PkgA, V100, V101, FALSE, 69) }

SeqsUpTo(S, n) == UNION {[1..k -> S] : k \in 0..n}

\* a list that names no vulnerability twice
NoRepeat(l) == \A i, j \in 1..Len(l) : l[i] = l[j] => i = j

\* trivy.Scan: an error, or a list of vulnerabilities, each reported once
ScanOutputs(n) ==
    {[err |-> TRUE, vulns |-> <<>>]}
        \cup {[err |-> FALSE, vulns |-> l] : l \in {x \in SeqsUpTo(VulnUniverse, n) : NoRepeat(x)}}

Req(path, version, indirect) == [Path |-> path, Version |-> version, Indirect |-> indirect]

\* go.mod files: two direct dependencies in the namespace of g/s/v; only an
\* indirect one; none; and one that requires g/s/v itself directly
GoMods ==
    { <<Req(PkgD, V100, FALSE), Req(PkgW, V100, FALSE), Req(PkgV, V100, TRUE)>>,
      <<Req(PkgE, V100, FALSE), Req(PkgV, V100, TRUE), Req(PkgW, V100, TRUE)>>,
      <<Req(PkgA, V100, FALSE)>>,
      <<Req(PkgV, V100, FALSE)>> }

\* the go.mod of the current manifest.  req is what the file on disk
\* requires now; read is whether NewParser has read it for the current
\* finding, and seen is what it required when updateThroughDirectDep read it
\* for its candidate lists.  Unread is the file of a manifest on which the
\* run has run no go get and no NewParser yet: it is one of GoMods, and
\* which one shows with the first command that reads or writes it.
Unread == [read |-> FALSE, req |-> <<>>, seen |-> <<>>]

\* the modules of the proxy, and the module that provides a package path
ProxyModules == {PkgA, PkgE, PkgD, PkgV, PkgW}
ProxyModule(pkgPath) ==
    IF \E m \in ProxyModules : HasPrefix(pkgPath, m \o <<"/">>)
    THEN CHOOSE m \in ProxyModules : HasPrefix(pkgPath, m \o <<"/">>)
    ELSE pkgPath

\* the releases of the model's modules, oldest first, and the place of a
\* version among them (0 for any other string)
Releases == <<V100, V101, V200>>
ReleaseRank(version) ==
    IF \E i \in 1..Len(Releases) : Releases[i] = version
    THEN CHOOSE i \in 1..Len(Releases) : Releases[i] = version
    ELSE 0

\* the version the module proxy resolves "latest" to when "go get
\* module@latest" succeeds: g/s/d has a release with a higher major version,
\* every other module a patch release
LatestAtProxy(modulePath) == IF modulePath = PkgD THEN V200 ELSE V101

\* "latest" for a module go.mod requires at current: a release go.mod
\* already names exists, so latest is not below it
LatestFor(modulePath, current) ==
    IF ReleaseRank(current) > ReleaseRank(LatestAtProxy(modulePath))
    THEN current ELSE LatestAtProxy(modulePath)

\* what a successful "go get pkgPath@version" writes to go.mod for the
\* module of pkgPath: its requirement is set to the version asked for, and a
\* module go.mod did not name is added as an indirect requirement
GoGetEffect(req, pkgPath, version) ==
    LET m == ProxyModule(pkgPath)
        v == NormalizeVersion(version)
        resolved == IF v = Latest THEN LatestFor(m, GetVersion(req, m)) ELSE v
    IN IF \E i \in 1..Len(req) : req[i].Path = m
       THEN [i \in 1..Len(req) |->
                IF req[i].Path = m THEN [req[i] EXCEPT !.Version = resolved] ELSE req[i]]
       ELSE Append(req, Req(m, resolved, TRUE))

\* the go.mod files a successful go get may leave: besides its own module,
\* the update of another module may raise the requirement of the vulnerable
\* package v.PkgName to the fixed version (minimal version selection)
GoGetEffects(req, pkgPath, version, v) ==
    LET base == GoGetEffect(req, pkgPath, version)
        fixed == NormalizeVersion(v.FixedVersion)
        raised == [i \in 1..Len(base) |->
                     IF base[i].Path = v.PkgName THEN [base[i] EXCEPT !.Version = fixed]
                     ELSE base[i]]
    IN IF /\ ProxyModule(pkgPath) # v.PkgName
          /\ ReleaseRank(fixed) > ReleaseRank(GetVersion(base, v.PkgName))
          /\ \E i \in 1..Len(base) : base[i].Path = v.PkgName
       THEN {base, raised} ELSE {base}

\* gomod.ModWhy: an error, or the lines of "go mod why -m pkg" (strings.Split
\* of the output on "\n", so the last line is empty): a chain through a
\* package of g/s/d, a chain that names pkg right after the main module, and
\* the one-line answer for a module the main module does not need
WhyOutputs(pkg) ==
    LET header == <<"#", " ">> \o pkg
    IN { [err |-> TRUE, lines |-> <<>>],
         [err |-> FALSE, lines |-> <<header, RootModule, ImportDP, pkg, <<>> >>],
         [err |-> FALSE, lines |-> <<header, RootModule, pkg, <<>> >>],
         [err |-> FALSE, lines |-> <<header, <<"(", "n", "o", "n", "e", ")">>, <<>> >>] }

Configs ==
    [AllowMajor : BOOLEAN, SkipTidy : BOOLEAN, DryRun : BOOLEAN, GenerateVEX : BOOLEAN,
     CVSSThreshold : {DefaultCVSSThreshold}]

----------------------------------------------------------------------------
(* Return values and commands *)

NoRet == [err |-> "none", at |-> "none"]
Return(err, at) == [err |-> err, at |-> at]

NotCalled == [called |-> FALSE, vulns |-> <<>>]

\* gomod.GoGet(moduleDir, pkgPath, version): the command run is
\* "go get pkgPath@NormalizeVersion(version)".  declared is the version the
\* package had before, by names the calling function, ok is whether the
\* command succeeded.
GoGetCmd(pkgPath, version, declared, by, ok) ==
    [pkg |-> pkgPath, version |-> NormalizeVersion(version), declared |-> declared, by |-> by,
     ok |-> ok]

\* a gate with the flag inverted
MajorBlockedInverted(allowMajor, oldVersion, newVersion) ==
    IsMajorVersionBump(oldVersion, newVersion) /\ allowMajor

\* the major-version gate of UpdateDirect (part_002:80-84)
MajorBlocked(allowMajor, oldVersion, newVersion) ==
    IsMajorVersionBump(oldVersion, newVersion) /\ ~allowMajor

\* the major-version gate of updateThroughDirectDep (indirect.go:149-154)
TailMajorBlocked(allowMajor, currentVersion, target) ==
    target # Latest /\ IsMajorVersionBump(currentVersion, target) /\ ~allowMajor

\* what a scan says about finding v, compared field by field: the history
\* variable verified records it
Seen(r, v) ==
    IF r.err THEN "error"
    ELSE IF \E i \in 1..Len(r.vulns) :
              /\ r.vulns[i].VulnerabilityID = v.VulnerabilityID
              /\ r.vulns[i].PkgName = v.PkgName
    THEN "present"
    ELSE "absent"

\* what UpdateIndirect and the candidate loop read of a verification scan
\* for finding v: whether trivy.Scan failed and whether their check loop
\* finds v in its result; seen is the entry for the history variable
ScanVerdicts(v) ==
    {[seen |-> Seen(r, v), err |-> r.err, present |-> StillPresent(r.vulns, v)] :
        r \in ScanOutputs(MaxRescan)}

----------------------------------------------------------------------------
(* The state machine *)

vuln == filtered[vi]

\* what the updater functions leave alone
runVars == <<cfg, call, goModFiles, scans, exitCode, mi, filtered, vi, unfixedVulns, vexInput, outcome>>
\* the locals of updateThroughDirectDep
chainVars == <<gomod, directDeps, allDeps, ci, targetVersion>>

\* what go.mod of the current manifest may require on disk now
RequiredOnDisk == IF gomod = Unread THEN GoMods ELSE {gomod.req}

\* the next finding of the manifest finds go.mod as the last one left it;
\* the next manifest has a go.mod of its own
NextFinding(more) ==
    gomod' = IF more THEN [gomod EXCEPT !.read = FALSE, !.seen = <<>>] ELSE Unread

\* go.mod after "go get pkgPath@version" for the current finding: rewritten
\* when the command succeeded, untouched when it failed.  go mod tidy, run
\* after it on a module whose go.mod was tidy before the run, leaves the
\* requirements as go get wrote them.
GoGetWrites(ok, pkgPath, version) ==
    gomod' \in IF ok
               THEN {[gomod EXCEPT !.req = g] :
                        g \in UNION {GoGetEffects(onDisk, pkgPath, version, filtered[vi]) :
                                        onDisk \in RequiredOnDisk}}
               ELSE {gomod}

\* the locals of updateThroughDirectDep other than the parsed go.mod
chainLocals == <<directDeps, allDeps, ci, targetVersion>>

ResetHistory ==
    /\ cmds' = <<>>
    /\ tidy' = "none"
    /\ nWhy' = 0
    /\ verified' = "none"
    /\ untidied' = FALSE
    /\ outcome' = "none"
    /\ ret' = NoRet
    /\ directDeps' = <<>>
    /\ allDeps' = <<>>
    /\ ci' = 0
    /\ targetVersion' = <<>>

\* no function is called on its own during a run of the update command
NoCall == [fn |-> "none", in |-> <<>>, out |-> <<>>, out2 |-> <<>>, done |-> 0]

Init ==
    /\ cfg \in Configs
    /\ call = NoCall
    /\ pc = "config"
    /\ goModFiles = [err |-> FALSE, n |-> 0]
    /\ scans = <<>>
    /\ exitCode = -1
    /\ mi = 1
    /\ gomod = Unread
    /\ filtered = <<>>
    /\ vi = 0
    /\ unfixedVulns = <<>>
    /\ directDeps = <<>>
    /\ allDeps = <<>>
    /\ ci = 0
    /\ targetVersion = <<>>
    /\ ret = NoRet
    /\ vexInput = NotCalled
    /\ cmds = <<>>
    /\ tidy = "none"
    /\ nWhy = 0
    /\ verified = "none"
    /\ untidied = FALSE
    /\ outcome = "none"

\* runUpdate, update.go:33-36: config.Get; cfg is what viper holds.  When it
\* cannot be unmarshalled the command returns the error and main exits with
\* status 1 before anything is discovered.
GetConfig ==
    /\ pc = "config"
    /\ \E ok \in BOOLEAN :
         IF ok THEN pc' = "discover" /\ exitCode' = exitCode
               ELSE pc' = "noconfig" /\ exitCode' = 1
    /\ UNCHANGED <<cfg, call, goModFiles, scans, mi, filtered, vi, unfixedVulns, vexInput,
                   chainVars, ret, cmds, tidy, nWhy, verified, untidied, outcome>>

\* runUpdate, update.go:43-54: DiscoverGoModFiles; an error ends the run with
\* that error, no go.mod file ends it with nil
Discover ==
    /\ pc = "discover"
    /\ \E ok \in BOOLEAN, n \in 0..NumManifests :
         IF ~ok
         THEN goModFiles' = [err |-> TRUE, n |-> 0] /\ pc' = "done" /\ exitCode' = 1
         ELSE /\ goModFiles' = [err |-> FALSE, n |-> n]
              /\ IF n = 0 THEN pc' = "done" /\ exitCode' = 0
                          ELSE pc' = "manifest" /\ exitCode' = exitCode
    /\ UNCHANGED <<cfg, call, scans, mi, filtered, vi, unfixedVulns, vexInput, chainVars, ret, cmds,
                   tidy, nWhy, verified, untidied, outcome>>

\* a runUpdate that does not skip a manifest whose scan failed: it goes on to
\* the verification of that manifest
ScanManifestNoSkipOnError ==
    /\ pc = "manifest"
    /\ mi <= goModFiles.n
    /\ \E r \in ScanOutputs(MaxFindings) :
         LET f == FilterByCVSS(r.vulns, cfg.CVSSThreshold)
         IN /\ scans' = Append(scans, IF r.err THEN "error" ELSE "ok")
            /\ IF r.err
               THEN /\ mi' = mi
                    /\ filtered' = <<>>
                    /\ vi' = 0
                    /\ pc' = "verify"
                    /\ gomod' = Unread
               ELSE IF Len(f) = 0
               THEN /\ mi' = mi + 1
                    /\ filtered' = <<>>
                    /\ vi' = 0
                    /\ pc' = "manifest"
                    /\ gomod' = Unread
               ELSE /\ mi' = mi
                    /\ filtered' = f
                    /\ vi' = 1
                    /\ pc' = "vuln"
                    /\ gomod' = Unread
    /\ ResetHistory
    /\ UNCHANGED <<cfg, call, goModFiles, exitCode, unfixedVulns, vexInput>>

\* runUpdate, update.go:58-76: the initial scan of the next manifest and the
\* CVSS filter; a failed scan or an empty filtered list goes on to the next
\* manifest
ScanManifest ==
    /\ pc = "manifest"
    /\ mi <= goModFiles.n
    /\ \E r \in ScanOutputs(MaxFindings) :
         LET f == FilterByCVSS(r.vulns, cfg.CVSSThreshold)
         IN /\ scans' = Append(scans, IF r.err THEN "error" ELSE "ok")
            /\ IF r.err \/ Len(f) = 0
               THEN /\ mi' = mi + 1
                    /\ filtered' = <<>>
                    /\ vi' = 0
                    /\ pc' = "manifest"
                    /\ gomod' = Unread
               ELSE /\ mi' = mi
                    /\ filtered' = f
                    /\ vi' = 1
                    /\ pc' = "vuln"
                    /\ gomod' = Unread
    /\ ResetHistory
    /\ UNCHANGED <<cfg, call, goModFiles, exitCode, unfixedVulns, vexInput>>

\* a loop body that checks for a dry run first
DispositionDryRunFirst(v, dryRun) ==
    IF dryRun THEN "dryrun"
    ELSE IF v.FixedVersion = <<>> THEN "nofix"
    ELSE "update"

\* runUpdate, update.go:80-91: what the loop body does with finding v before
\* any update: the check for a fix comes before the check for a dry run
Disposition(v, dryRun) ==
    IF v.FixedVersion = <<>> THEN "nofix"
    ELSE IF dryRun THEN "dryrun"
    ELSE "update"

\* runUpdate, update.go:79-98: one finding of the filtered list
Dispatch ==
    /\ pc = "vuln"
    /\ LET d == Disposition(vuln, cfg.DryRun)
       IN IF d = "update"
          THEN /\ pc' = IF vuln.Indirect THEN "UI_GoGet" ELSE "UD_GoGet"
               /\ UNCHANGED <<unfixedVulns, outcome>>
          ELSE /\ unfixedVulns' = IF d = "nofix" THEN Append(unfixedVulns, vuln)
                                                 ELSE unfixedVulns
               /\ outcome' = d
               /\ pc' = "next"
    /\ UNCHANGED <<cfg, call, goModFiles, scans, exitCode, mi, filtered, vi, vexInput, chainVars,
                   ret, cmds, tidy, nWhy,
                   verified, untidied>>

\* UpdateDirect, part_002:76-91: the major-version gate, then go get
UD_GoGet ==
    /\ pc = "UD_GoGet"
    /\ IF MajorBlocked(cfg.AllowMajor, vuln.InstalledVersion, vuln.FixedVersion)
       THEN /\ ret' = Return("major", "UpdateDirect:82")
            /\ pc' = "report"
            /\ UNCHANGED <<cmds, untidied, verified, gomod>>
       ELSE \E ok \in BOOLEAN :
            /\ cmds' = Append(cmds, GoGetCmd(vuln.PkgName, vuln.FixedVersion,
                                             vuln.InstalledVersion, "UpdateDirect", ok))
            /\ GoGetWrites(ok, vuln.PkgName, vuln.FixedVersion)
            /\ IF ~ok
               THEN /\ ret' = Return("goget", "UpdateDirect:90")
                    /\ pc' = "report"
                    /\ UNCHANGED <<untidied, verified>>
               ELSE /\ untidied' = TRUE
                    /\ verified' = "stale"
                    /\ IF cfg.SkipTidy
                       THEN ret' = Return("nil", "UpdateDirect:100") /\ pc' = "report"
                       ELSE ret' = ret /\ pc' = "UD_Tidy"
    /\ UNCHANGED <<runVars, chainLocals, tidy, nWhy>>

\* an UpdateDirect that drops the error of go mod tidy
UD_TidyIgnoresError ==
    /\ pc = "UD_Tidy"
    /\ \E ok \in BOOLEAN : tidy' = IF ok THEN "ok" ELSE "failed"
    /\ ret' = Return("nil", "UpdateDirect:100")
    /\ untidied' = FALSE
    /\ verified' = "stale"
    /\ pc' = "report"
    /\ UNCHANGED <<runVars, chainVars, cmds, nWhy>>

\* UpdateDirect, part_002:93-100: go mod tidy
UD_Tidy ==
    /\ pc = "UD_Tidy"
    /\ \E ok \in BOOLEAN :
         /\ tidy' = IF ok THEN "ok" ELSE "failed"
         /\ ret' = IF ok THEN Return("nil", "UpdateDirect:100")
                         ELSE Return("tidy", "UpdateDirect:96")
    /\ untidied' = FALSE
    /\ verified' = "stale"
    /\ pc' = "report"
    /\ UNCHANGED <<runVars, chainVars, cmds, nWhy>>

\* an UpdateIndirect that returns the error of its go get
UI_GoGetReturnsError ==
    /\ pc = "UI_GoGet"
    /\ \E ok \in BOOLEAN :
         /\ cmds' = Append(cmds, GoGetCmd(vuln.PkgName, vuln.FixedVersion,
                                          vuln.InstalledVersion, "UpdateIndirect", ok))
         /\ GoGetWrites(ok, vuln.PkgName, vuln.FixedVersion)
         /\ IF ~ok
            THEN /\ pc' = "report"
                 /\ ret' = Return("goget", "UpdateIndirect:25")
                 /\ UNCHANGED <<untidied, verified>>
            ELSE /\ untidied' = TRUE
                 /\ verified' = "stale"
                 /\ ret' = ret
                 /\ pc' = IF cfg.SkipTidy THEN "UI_Scan" ELSE "UI_Tidy"
    /\ UNCHANGED <<runVars, chainLocals, tidy, nWhy>>

\* UpdateIndirect, indirect.go:21-29: go get of the vulnerable package itself
UI_GoGet ==
    /\ pc = "UI_GoGet"
    /\ \E ok \in BOOLEAN :
         /\ cmds' = Append(cmds, GoGetCmd(vuln.PkgName, vuln.FixedVersion,
                                          vuln.InstalledVersion, "UpdateIndirect", ok))
         /\ GoGetWrites(ok, vuln.PkgName, vuln.FixedVersion)
         /\ IF ~ok
            THEN /\ pc' = "TC_Why"
                 /\ UNCHANGED <<untidied, verified>>
            ELSE /\ untidied' = TRUE
                 /\ verified' = "stale"
                 /\ pc' = IF cfg.SkipTidy THEN "UI_Scan" ELSE "UI_Tidy"
    /\ UNCHANGED <<runVars, chainLocals, ret, tidy, nWhy>>

\* UpdateIndirect, indirect.go:31-36: go mod tidy
UI_Tidy ==
    /\ pc = "UI_Tidy"
    /\ \E ok \in BOOLEAN :
         /\ tidy' = IF ok THEN "ok" ELSE "failed"
         /\ IF ok
            THEN pc' = "UI_Scan" /\ ret' = ret
            ELSE pc' = "report" /\ ret' = Return("tidy", "UpdateIndirect:34")
    /\ untidied' = FALSE
    /\ verified' = "stale"
    /\ UNCHANGED <<runVars, chainVars, cmds, nWhy>>

\* UpdateIndirect, indirect.go:38-54: the verification scan and the search
\* of its result for the finding
UI_Scan ==
    /\ pc = "UI_Scan"
    /\ \E r \in ScanVerdicts(vuln) :
         /\ verified' = r.seen
         /\ IF r.err
            THEN pc' = "report" /\ ret' = Return("scan", "UpdateIndirect:42")
            ELSE IF r.present
            THEN pc' = "TC_Why" /\ ret' = ret
            ELSE pc' = "report" /\ ret' = Return("nil", "UpdateIndirect:54")
    /\ UNCHANGED <<runVars, chainVars, cmds, tidy, nWhy, untidied>>

\* updateThroughDirectDep, indirect.go:62-66: the chain oracle
TC_Why ==
    /\ pc = "TC_Why"
    /\ \E why \in WhyOutputs(vuln.PkgName) :
         LET r == FindDirectDependencyFor(why)
         IN IF r.err
            THEN /\ ret' = Return("trace", "updateThroughDirectDep:65")
                 /\ pc' = "report"
                 /\ directDeps' = directDeps
            ELSE /\ ret' = ret
                 /\ pc' = "TC_Related"
                 /\ directDeps' = r.deps
    /\ nWhy' = nWhy + 1
    /\ UNCHANGED <<runVars, gomod, allDeps, ci, targetVersion, cmds, tidy, verified, untidied>>

\* a candidate loop that stops at the first candidate that did not help
AbortAfterCandidate(i) == pc' = "TL_Graph" /\ ci' = i

\* where the candidate loop goes after candidate i: the next candidate, or
\* the code after the loop
AfterCandidate(i) ==
    IF i < Len(allDeps)
    THEN pc' = "TC_CandGoGet" /\ ci' = i + 1
    ELSE pc' = "TL_Graph" /\ ci' = i

\* an updateThroughDirectDep without the check for an empty candidate list
TC_RelatedNoEmptyCheck ==
    /\ pc = "TC_Related"
    /\ \E parseOk \in BOOLEAN, g \in RequiredOnDisk :
         LET related == findRelatedDirectDependencies(parseOk, g, vuln.PkgName)
         IN \E directOks \in ParseResults(directDeps), relatedOks \in ParseResults(related.deps) :
         LET all == MergedCandidates(directOks, relatedOks, g, directDeps, related.deps)
         IN /\ gomod' = [read |-> TRUE, req |-> g, seen |-> g]
            /\ allDeps' = all
            /\ IF Len(all) = 0
               THEN pc' = "TL_Graph" /\ ci' = ci
               ELSE pc' = "TC_CandGoGet" /\ ci' = 1
    /\ UNCHANGED <<runVars, directDeps, targetVersion, ret, cmds, tidy, nWhy, verified,
                   untidied>>

\* updateThroughDirectDep, indirect.go:68-98: the namespace fallback, the
\* merge of the two candidate lists, and the error for an empty list.
\* g is go.mod as it is on disk; parseOk is the result of NewParser in
\* findRelatedDirectDependencies, directOks and relatedOks those of the calls
\* the merge loops make one by one.
TC_Related ==
    /\ pc = "TC_Related"
    /\ \E parseOk \in BOOLEAN, g \in RequiredOnDisk :
         LET related == findRelatedDirectDependencies(parseOk, g, vuln.PkgName)
         IN \E directOks \in ParseResults(directDeps), relatedOks \in ParseResults(related.deps) :
         LET all == MergedCandidates(directOks, relatedOks, g, directDeps, related.deps)
         IN /\ gomod' = [read |-> TRUE, req |-> g, seen |-> g]
            /\ IF Len(all) = 0
               THEN /\ ret' = Return("nodep", "updateThroughDirectDep:97")
                    /\ pc' = "report"
                    /\ UNCHANGED <<allDeps, ci>>
               ELSE /\ ret' = ret
                    /\ allDeps' = all
                    /\ ci' = 1
                    /\ pc' = "TC_CandGoGet"
    /\ UNCHANGED <<runVars, directDeps, targetVersion, cmds, tidy, nWhy, verified, untidied>>

\* an updateDirectDepAndVerify that returns without go mod tidy
TC_CandGoGetNoTidy ==
    /\ pc = "TC_CandGoGet"
    /\ \E ok \in BOOLEAN, parseOk \in BOOLEAN :
         LET modulePath == importPathToModulePath(parseOk, gomod.req, allDeps[ci])
         IN /\ cmds' = Append(cmds, GoGetCmd(modulePath, Latest, GetVersion(gomod.req, modulePath),
                                             "updateDirectDepAndVerify", ok))
            /\ GoGetWrites(ok, modulePath, Latest)
            /\ IF ~ok
               THEN /\ AfterCandidate(ci)
                    /\ UNCHANGED <<untidied, verified>>
               ELSE /\ untidied' = TRUE
                    /\ verified' = "stale"
                    /\ ci' = ci
                    /\ pc' = "TC_CandScan"
    /\ UNCHANGED <<runVars, directDeps, allDeps, targetVersion, ret, tidy, nWhy>>

\* updateDirectDepAndVerify, indirect.go:312-322, for candidate ci: go get of
\* the candidate's module at "latest"
TC_CandGoGet ==
    /\ pc = "TC_CandGoGet"
    /\ \E ok \in BOOLEAN, parseOk \in BOOLEAN :
         LET modulePath == importPathToModulePath(parseOk, gomod.req, allDeps[ci])
         IN /\ cmds' = Append(cmds, GoGetCmd(modulePath, Latest, GetVersion(gomod.req, modulePath),
                                             "updateDirectDepAndVerify", ok))
            /\ GoGetWrites(ok, modulePath, Latest)
            /\ IF ~ok
               THEN /\ AfterCandidate(ci)
                    /\ UNCHANGED <<untidied, verified>>
               ELSE /\ untidied' = TRUE
                    /\ verified' = "stale"
                    /\ ci' = ci
                    /\ pc' = IF cfg.SkipTidy THEN "TC_CandScan" ELSE "TC_CandTidy"
    /\ UNCHANGED <<runVars, directDeps, allDeps, targetVersion, ret, tidy, nWhy>>

\* updateDirectDepAndVerify, indirect.go:324-331: go mod tidy
TC_CandTidy ==
    /\ pc = "TC_CandTidy"
    /\ \E ok \in BOOLEAN :
         /\ tidy' = IF ok THEN "ok" ELSE "failed"
         /\ IF ok THEN pc' = "TC_CandScan" /\ ci' = ci ELSE AfterCandidate(ci)
    /\ untidied' = FALSE
    /\ verified' = "stale"
    /\ UNCHANGED <<runVars, gomod, directDeps, allDeps, targetVersion, ret, cmds, nWhy>>

\* a candidate loop that takes a failed scan for one without the finding
TC_CandScanErrorIsClear ==
    /\ pc = "TC_CandScan"
    /\ \E r \in ScanOutputs(MaxRescan) :
         /\ verified' = Seen(r, vuln)
         /\ IF StillPresent(r.vulns, vuln)
            THEN AfterCandidate(ci) /\ ret' = ret
            ELSE pc' = "report" /\ ci' = ci /\ ret' = Return("nil", "updateThroughDirectDep:125")
    /\ UNCHANGED <<runVars, gomod, directDeps, allDeps, targetVersion, cmds, tidy, nWhy,
                   untidied>>

\* a candidate loop that does not return when the finding is gone
TC_CandScanNoStop ==
    /\ pc = "TC_CandScan"
    /\ \E r \in ScanOutputs(MaxRescan) : verified' = Seen(r, vuln)
    /\ AfterCandidate(ci)
    /\ UNCHANGED <<runVars, gomod, directDeps, allDeps, targetVersion, ret, cmds, tidy, nWhy,
                   untidied>>

\* updateThroughDirectDep, indirect.go:109-126: the scan after a candidate's
\* update; the function returns nil when the finding is gone
TC_CandScan ==
    /\ pc = "TC_CandScan"
    /\ \E r \in ScanVerdicts(vuln) :
         /\ verified' = r.seen
         /\ IF r.err \/ r.present
            THEN AfterCandidate(ci) /\ ret' = ret
            ELSE pc' = "report" /\ ci' = ci /\ ret' = Return("nil", "updateThroughDirectDep:125")
    /\ UNCHANGED <<runVars, gomod, directDeps, allDeps, targetVersion, cmds, tidy, nWhy,
                   untidied>>

\* the exit status of a Go program that ends by a panic nothing recovers
PanicExitCode == 2

\* updateThroughDirectDep, indirect.go:129-140, after the candidate loop:
\* directDeps[0], a run-time panic when directDeps is empty, which ends the
\* process (neither main nor cmd.Execute recovers), then go mod graph
TL_Graph ==
    /\ pc = "TL_Graph"
    /\ IF Len(directDeps) = 0
       THEN /\ pc' = "panic"
            /\ exitCode' = PanicExitCode
            /\ targetVersion' = targetVersion
       ELSE \E graphOk \in BOOLEAN :
              LET tv == findDirectDepVersionWithFix(graphOk)
              IN /\ targetVersion' = IF tv.err THEN Latest ELSE tv.version
                 /\ pc' = "TL_Parse"
                 /\ exitCode' = exitCode
    /\ UNCHANGED <<cfg, call, goModFiles, scans, mi, filtered, vi, unfixedVulns, vexInput,
                   outcome, gomod, directDeps, allDeps, ci, ret, cmds, tidy, nWhy,
                   verified, untidied>>

\* updateThroughDirectDep, indirect.go:142-154: NewParser and the
\* major-version gate on directDeps[0]
TL_Parse ==
    /\ pc = "TL_Parse"
    /\ \E parseOk \in BOOLEAN :
         IF ~parseOk
         THEN ret' = Return("parse", "updateThroughDirectDep:145") /\ pc' = "report"
         ELSE IF TailMajorBlocked(cfg.AllowMajor, GetVersion(gomod.req, directDeps[1]),
                                  targetVersion)
         THEN ret' = Return("major", "updateThroughDirectDep:151") /\ pc' = "report"
         ELSE ret' = ret /\ pc' = "TL_GoGet"
    /\ UNCHANGED <<runVars, chainVars, cmds, tidy, nWhy, verified, untidied>>

\* the value updateThroughDirectDep returns at indirect.go:169, after its
\* last go get and go mod tidy
TailReturn == Return("nil", "updateThroughDirectDep:169")

\* updateThroughDirectDep, indirect.go:156-160: go get of directDeps[0]
TL_GoGet ==
    /\ pc = "TL_GoGet"
    /\ \E ok \in BOOLEAN :
         /\ cmds' = Append(cmds, GoGetCmd(directDeps[1], targetVersion,
                                          GetVersion(gomod.req, directDeps[1]),
                                          "updateThroughDirectDep", ok))
         /\ GoGetWrites(ok, directDeps[1], targetVersion)
         /\ IF ~ok
            THEN /\ ret' = Return("goget", "updateThroughDirectDep:159")
                 /\ pc' = "report"
                 /\ UNCHANGED <<untidied, verified>>
            ELSE /\ untidied' = TRUE
                 /\ verified' = "stale"
                 /\ IF cfg.SkipTidy
                    THEN ret' = TailReturn /\ pc' = "report"
                    ELSE ret' = ret /\ pc' = "TL_Tidy"
    /\ UNCHANGED <<runVars, chainLocals, tidy, nWhy>>

\* updateThroughDirectDep, indirect.go:162-169: go mod tidy
TL_Tidy ==
    /\ pc = "TL_Tidy"
    /\ \E ok \in BOOLEAN :
         /\ tidy' = IF ok THEN "ok" ELSE "failed"
         /\ ret' = IF ok THEN TailReturn ELSE Return("tidy", "updateThroughDirectDep:165")
    /\ untidied' = FALSE
    /\ verified' = "stale"
    /\ pc' = "report"
    /\ UNCHANGED <<runVars, chainVars, cmds, nWhy>>

\* whether runUpdate keeps a finding whose update returned an error for the
\* VEX document: it does not (update.go:100-104)
KeepFailed == FALSE

\* runUpdate, update.go:100-107: the status line for the finding
Report ==
    /\ pc = "report"
    /\ IF ret.err # "nil"
       THEN /\ outcome' = "failed"
            /\ unfixedVulns' = IF KeepFailed THEN Append(unfixedVulns, vuln) ELSE unfixedVulns
       ELSE /\ outcome' = "updated"
            /\ UNCHANGED unfixedVulns
    /\ pc' = "next"
    /\ UNCHANGED <<cfg, call, goModFiles, scans, exitCode, mi, filtered, vi, vexInput, chainVars,
                   ret, cmds, tidy, nWhy,
                   verified, untidied>>

\* a runUpdate that calls updater.Verify whatever cfg.DryRun is
NextVulnAlwaysVerifies ==
    /\ pc = "next"
    /\ IF vi < Len(filtered)
       THEN vi' = vi + 1 /\ pc' = "vuln" /\ mi' = mi
       ELSE vi' = vi /\ pc' = "verify" /\ mi' = mi
    /\ ResetHistory
    /\ NextFinding(vi < Len(filtered))
    /\ UNCHANGED <<cfg, call, goModFiles, scans, exitCode, filtered, unfixedVulns, vexInput>>

\* a loop over the findings whose index does not advance
NextVulnRepeats ==
    /\ pc = "next"
    /\ IF vi < Len(filtered)
       THEN vi' = vi /\ pc' = "vuln" /\ mi' = mi
       ELSE IF ~cfg.DryRun
       THEN vi' = vi /\ pc' = "verify" /\ mi' = mi
       ELSE vi' = 0 /\ pc' = "manifest" /\ mi' = mi + 1
    /\ ResetHistory
    /\ NextFinding(vi < Len(filtered))
    /\ UNCHANGED <<cfg, call, goModFiles, scans, exitCode, filtered, unfixedVulns, vexInput>>

\* runUpdate, update.go:79 and 110-115: the next finding, or the end of the
\* manifest's findings
NextVuln ==
    /\ pc = "next"
    /\ IF vi < Len(filtered)
       THEN vi' = vi + 1 /\ pc' = "vuln" /\ mi' = mi
       ELSE IF ~cfg.DryRun
       THEN vi' = vi /\ pc' = "verify" /\ mi' = mi
       ELSE vi' = 0 /\ pc' = "manifest" /\ mi' = mi + 1
    /\ ResetHistory
    /\ NextFinding(vi < Len(filtered))
    /\ UNCHANGED <<cfg, call, goModFiles, scans, exitCode, filtered, unfixedVulns, vexInput>>

\* updater.Verify, part_002:12-39: a scan whose result is printed only
Verify ==
    /\ pc = "verify"
    /\ vi' = 0
    /\ mi' = mi + 1
    /\ pc' = "manifest"
    /\ UNCHANGED <<cfg, call, goModFiles, scans, exitCode, filtered, unfixedVulns, vexInput,
                   chainVars, ret, cmds, tidy, nWhy,
                   verified, untidied, outcome>>

\* runUpdate, update.go:118-130: VEX generation after the last manifest
GenerateVEX ==
    /\ pc = "manifest"
    /\ mi > goModFiles.n
    /\ vexInput' = IF cfg.GenerateVEX /\ Len(unfixedVulns) > 0
                   THEN [called |-> TRUE, vulns |-> unfixedVulns]
                   ELSE vexInput
    /\ pc' = "done"
    /\ exitCode' = 0
    /\ UNCHANGED <<cfg, call, goModFiles, scans, mi, filtered, vi, unfixedVulns, chainVars, ret,
                   cmds, tidy, nWhy,
                   verified, untidied, outcome>>

Next ==
    \/ GetConfig
    \/ Discover
    \/ ScanManifest
    \/ Dispatch
    \/ UD_GoGet
    \/ UD_Tidy
    \/ UI_GoGet
    \/ UI_Tidy
    \/ UI_Scan
    \/ TC_Why
    \/ TC_Related
    \/ TC_CandGoGet
    \/ TC_CandTidy
    \/ TC_CandScan
    \/ TL_Graph
    \/ TL_Parse
    \/ TL_GoGet
    \/ TL_Tidy
    \/ Report
    \/ NextVuln
    \/ Verify
    \/ GenerateVEX

Spec == Init /\ [][Next]_vars

----------------------------------------------------------------------------
(* The run from the loop over the findings of the first manifest on,
   update.go:79-131, from the point where the scan of the first manifest has
   given several findings; the manifests after it are scanned as in Spec *)

\* the most findings of the scan of the first manifest
MaxSeqFindings == 2

InitSeq ==
    /\ cfg \in Configs
    /\ call = NoCall
    /\ pc = "vuln"
    /\ goModFiles \in {[err |-> FALSE, n |-> n] : n \in 1..NumManifests}
    /\ scans = <<"ok">>
    /\ exitCode = -1
    /\ mi = 1
    /\ gomod = Unread
    /\ \E r \in ScanOutputs(MaxSeqFindings) :
         /\ ~r.err
         /\ filtered = FilterByCVSS(r.vulns, cfg.CVSSThreshold)
         /\ Len(filtered) > 1
    /\ vi = 1
    /\ unfixedVulns = <<>>
    /\ directDeps = <<>>
    /\ allDeps = <<>>
    /\ ci = 0
    /\ targetVersion = <<>>
    /\ ret = NoRet
    /\ vexInput = NotCalled
    /\ cmds = <<>>
    /\ tidy = "none"
    /\ nWhy = 0
    /\ verified = "none"
    /\ untidied = FALSE
    /\ outcome = "none"

NextSeq ==
    \/ ScanManifest
    \/ Dispatch
    \/ UD_GoGet
    \/ UD_Tidy
    \/ UI_GoGet
    \/ UI_Tidy
    \/ UI_Scan
    \/ TC_Why
    \/ TC_Related
    \/ TC_CandGoGet
    \/ TC_CandTidy
    \/ TC_CandScan
    \/ TL_Graph
    \/ TL_Parse
    \/ TL_GoGet
    \/ TL_Tidy
    \/ Report
    \/ NextVuln
    \/ Verify
    \/ GenerateVEX

SpecSeq == InitSeq /\ [][NextSeq]_vars

----------------------------------------------------------------------------
(* The functions taken alone: one call of one function, on arguments drawn *)
(* from bounded sets.  The update command is at rest meanwhile.            *)

\* longest finding list handed to FilterByCVSS
MaxList == 3
\* most CVSS sources of one vulnerability in trivy's output
MaxSources == 3
\* longest version string built from VerAlphabet
MaxVerLen == 3
\* largest major version of a rendered version
MaxMajor == 10
\* longest list handed to vex.Generate
MaxVEX == 2

mainVars == <<cfg, pc, mi, gomod, filtered, vi, unfixedVulns, goModFiles, scans, exitCode,
              directDeps, allDeps, ci,
              targetVersion, ret, vexInput, cmds, tidy, nWhy, verified, untidied, outcome>>

Idle ==
    /\ cfg = [AllowMajor |-> FALSE, SkipTidy |-> FALSE, DryRun |-> FALSE, GenerateVEX |-> FALSE,
              CVSSThreshold |-> DefaultCVSSThreshold]
    /\ pc = "fn"
    /\ goModFiles = [err |-> FALSE, n |-> 0]
    /\ scans = <<>>
    /\ exitCode = -1
    /\ mi = 1
    /\ gomod = Unread
    /\ filtered = <<>>
    /\ vi = 0
    /\ unfixedVulns = <<>>
    /\ directDeps = <<>>
    /\ allDeps = <<>>
    /\ ci = 0
    /\ targetVersion = <<>>
    /\ ret = NoRet
    /\ vexInput = NotCalled
    /\ cmds = <<>>
    /\ tidy = "none"
    /\ nWhy = 0
    /\ verified = "none"
    /\ untidied = FALSE
    /\ outcome = "none"

Called(fn, in) == [fn |-> fn, in |-> in, out |-> <<>>, out2 |-> <<>>, done |-> 0]

(* trivy.FilterByCVSS and getHighestCVSSScore *)

\* the loop of getHighestCVSSScore: cvss holds the V3Score of each entry of
\* the CVSS map, in the order the range statement visits them
RECURSIVE HighestFrom(_, _)
HighestFrom(cvss, highest) ==
    IF Len(cvss) = 0 THEN highest
    ELSE HighestFrom(Tail(cvss), IF cvss[1] > highest THEN cvss[1] ELSE highest)

\* a score that is the one of the source visited last
getHighestCVSSScoreLast(cvss) == IF Len(cvss) = 0 THEN 0 ELSE cvss[Len(cvss)]

getHighestCVSSScore(cvss) == HighestFrom(cvss, 0)

\* convertTrivyOutput, scan.go:80-93: the Vulnerability made of one
\* vulnerability of trivy's output
convertVuln(id, pkg, installed, fixed, indirect, cvss) ==
    Vuln(id, pkg, installed, fixed, indirect, getHighestCVSSScore(cvss))

\* scores and thresholds in tenths, on both sides of the default threshold
FilterScores == {0, 69, 70, 71}
Thresholds == {-10, 0, 1, 70}
SourceScores == {0, 45, 70, 98}

FilterFindings == {Vuln("CVE-7", PkgA, V100, V101, FALSE, s) : s \in FilterScores}

FilterCalls ==
    {Called("FilterByCVSS", [vulns |-> l, threshold |-> t, before |-> l]) :
        l \in SeqsUpTo(FilterFindings, MaxList), t \in Thresholds}

\* FilterByCVSS, then FilterByCVSS of its result
Call_FilterByCVSS ==
    /\ call.fn = "FilterByCVSS"
    /\ call.done < 2
    /\ call' = IF call.done = 0
               THEN [call EXCEPT !.out = FilterByCVSS(call.in.vulns, call.in.threshold),
                                 !.done = 1]
               ELSE [call EXCEPT !.out2 = FilterByCVSS(call.out, call.in.threshold),
                                 !.done = 2]
    /\ UNCHANGED mainVars

ConvertCalls ==
    {Called("convertTrivyOutput", [cvss |-> c, threshold |-> t]) :
        c \in SeqsUpTo(SourceScores, MaxSources), t \in Thresholds}

\* the conversion of one vulnerability, then FilterByCVSS of the result
Call_convertTrivyOutput ==
    /\ call.fn = "convertTrivyOutput"
    /\ call.done < 2
    /\ call' = IF call.done = 0
               THEN [call EXCEPT !.out = convertVuln("CVE-7", PkgA, V100, V101, FALSE,
                                                     call.in.cvss),
                                 !.done = 1]
               ELSE [call EXCEPT !.out2 = FilterByCVSS(<<call.out>>, call.in.threshold),
                                 !.done = 2]
    /\ UNCHANGED mainVars

(* gomod.NormalizeVersion and gomod.GoGet *)

\* version strings: every string of up to MaxVerLen characters of
\* VerAlphabet, and the versions of the findings with pre-release ones
VerAlphabet == {"v", "1", ".", "l", "-"}
PreRelease == <<"-", "r", "c", "1">>
VersionStrings ==
    SeqsUpTo(VerAlphabet, MaxVerLen)
        \cup {Latest, V100, B101, V200, B200, V100 \o PreRelease, B101 \o PreRelease}

NormalizeCalls == {Called("NormalizeVersion", [version |-> v]) : v \in VersionStrings}

\* NormalizeVersion, then NormalizeVersion of its result
Call_NormalizeVersion ==
    /\ call.fn = "NormalizeVersion"
    /\ call.done < 2
    /\ call' = IF call.done = 0
               THEN [call EXCEPT !.out = NormalizeVersion(call.in.version), !.done = 1]
               ELSE [call EXCEPT !.out2 = NormalizeVersion(call.out), !.done = 2]
    /\ UNCHANGED mainVars

\* GoGet, parser.go:236-239: the argument of "go get"
GoGetTarget(pkgPath, version) == pkgPath \o <<"@">> \o NormalizeVersion(version)

GoGetCalls ==
    {Called("GoGet", [pkgPath |-> p, version |-> v]) : p \in {PkgA}, v \in VersionStrings}

Call_GoGet ==
    /\ call.fn = "GoGet"
    /\ call.done = 0
    /\ call' = [call EXCEPT !.out = GoGetTarget(call.in.pkgPath, call.in.version), !.done = 1]
    /\ UNCHANGED mainVars

(* gomod.IsMajorVersionBump *)

DigitChar(d) == CHOOSE c \in Digits : DigitVal(c) = d

\* the decimal digits of n
RECURSIVE Itoa(_)
Itoa(n) == IF n < 10 THEN <<DigitChar(n)>> ELSE Itoa(n \div 10) \o <<DigitChar(n % 10)>>

\* what follows the major version: nothing, minor and patch, a pre-release
\* after them, a pre-release right after the major version, a build suffix
Suffixes ==
    { <<>>,
      <<".", "0", ".", "0">>,
      <<".", "2", ".", "3">> \o PreRelease,
      PreRelease,
      <<".", "0", ".", "0", "+", "b", "1">> }

\* versions by their parts: v is whether the "v" prefix is there
SemVers == [v : BOOLEAN, major : 0..MaxMajor, rest : Suffixes]

Render(sv) == (IF sv.v THEN <<"v">> ELSE <<>>) \o Itoa(sv.major) \o sv.rest

\* the pairs of rendered versions, with the major versions they were
\* rendered from, and the pairs of one version string with itself
BumpCalls ==
    {Called("IsMajorVersionBump",
            [oldVersion |-> Render(a), newVersion |-> Render(b), kind |-> "semver",
             oldMajor |-> a.major, newMajor |-> b.major]) : a \in SemVers, b \in SemVers}
        \cup {Called("IsMajorVersionBump",
                     [oldVersion |-> v, newVersion |-> v, kind |-> "same",
                      oldMajor |-> 0, newMajor |-> 0]) : v \in VersionStrings}

Call_IsMajorVersionBump ==
    /\ call.fn = "IsMajorVersionBump"
    /\ call.done = 0
    /\ call' = [call EXCEPT !.out = IsMajorVersionBump(call.in.oldVersion, call.in.newVersion),
                            !.done = 1]
    /\ UNCHANGED mainVars

(* vex.Generate *)

\* what client.GenerateVEXJustification gives: an error (a timeout is one),
\* a response that is not JSON, or a JSON object with these fields
AIResult(kind, status, justification, impact) ==
    [kind |-> kind, Status |-> status, Justification |-> justification,
     ImpactStatement |-> impact]

AIResults ==
    { AIResult("error", "", "", <<>>),
      AIResult("unparseable", "", "", <<>>),
      AIResult("json", "not_affected", "vulnerable_code_not_in_execute_path", <<"AI impact">>),
      AIResult("json", "bogus", "AI justification", <<"AI impact">>) }

validStatuses == {"not_affected", "affected", "fixed", "under_investigation"}

\* generateAIJustification
generateAIJustification(r) ==
    IF r.kind = "error" THEN [err |-> TRUE, justification |-> AIResult("", "", "", <<>>)]
    ELSE IF r.kind = "unparseable"
    THEN [err |-> TRUE, justification |-> AIResult("", "", "", <<>>)]
    ELSE [err |-> FALSE,
          justification |->
              [r EXCEPT !.Status = IF r.Status \in validStatuses THEN r.Status
                                   ELSE "under_investigation"]]

\* the impact statements Generate writes itself
GenericImpact == <<"No fix available. Requires manual analysis.">>
NoAIImpact(v) ==
    <<"No fix available for", v.VulnerabilityID, v.PkgName, v.InstalledVersion,
      "Requires manual analysis.">>

\* Generate, generator.go:77-108: the statement for one vulnerability
Statement(v, aiConfigured, r) ==
    LET stmt == [VulnerabilityID |-> v.VulnerabilityID, Products |-> <<v.PkgName>>,
                 Status |-> "", Justification |-> "", ImpactStatement |-> <<>>]
        j == generateAIJustification(r)
    IN IF aiConfigured
       THEN IF j.err
            THEN [stmt EXCEPT !.Status = "under_investigation",
                              !.ImpactStatement = GenericImpact]
            ELSE [stmt EXCEPT !.Status = j.justification.Status,
                              !.Justification = j.justification.Justification,
                              !.ImpactStatement = j.justification.ImpactStatement]
       ELSE [stmt EXCEPT !.Status = "under_investigation",
                         !.ImpactStatement = NoAIImpact(v)]

\* Generate, generator.go:76-111: doc.Statements
RECURSIVE Statements(_, _, _)
Statements(vulns, aiConfigured, responses) ==
    IF Len(vulns) = 0 THEN <<>>
    ELSE <<Statement(vulns[1], aiConfigured, responses[1])>>
             \o Statements(Tail(vulns), aiConfigured, Tail(responses))

\* the vulnerabilities without a fix
UnfixedUniverse == {v \in VulnUniverse : v.FixedVersion = <<>>}

GenerateCalls ==
    UNION {{Called("Generate", [vulns |-> l, aiConfigured |-> a, responses |-> r]) :
               a \in BOOLEAN, r \in [1..Len(l) -> AIResults]} :
           l \in SeqsUpTo(UnfixedUniverse, MaxVEX)}

Call_Generate ==
    /\ call.fn = "Generate"
    /\ call.done = 0
    /\ call' = [call EXCEPT !.out = Statements(call.in.vulns, call.in.aiConfigured,
                                               call.in.responses),
                            !.done = 1]
    /\ UNCHANGED mainVars

(* updater.findRelatedDirectDependencies *)

\* the longest require list of a go.mod given to the function
MaxDeps == 2

\* module paths as their segments: one and two segments, three modules of
\* namespace g/s, and two whose namespace differs from g/s in one segment
PathSegs ==
    { << <<"g">> >>,
      << <<"g">>, <<"s">> >>,
      << <<"g">>, <<"s">>, <<"v">> >>,
      << <<"g">>, <<"s">>, <<"d">> >>,
      << <<"g">>, <<"s", "s">>, <<"d">> >>,
      << <<"h">>, <<"s">>, <<"d">> >> }

\* the require lines of a go.mod, each module required once
RequireLists ==
    {l \in SeqsUpTo([segs : PathSegs, indirect : BOOLEAN], MaxDeps) :
        \A i, j \in 1..Len(l) : l[i].segs = l[j].segs => i = j}

\* the requirements modfile.Parse gives for the lines
Requires(l) == [i \in 1..Len(l) |-> Req(Join(l[i].segs, "/"), V100, l[i].indirect)]

RelatedCalls ==
    {Called("findRelatedDirectDependencies", [parseOk |-> ok, req |-> l, pkg |-> p]) :
        ok \in BOOLEAN, l \in RequireLists, p \in PathSegs}

Call_findRelatedDirectDependencies ==
    /\ call.fn = "findRelatedDirectDependencies"
    /\ call.done = 0
    /\ call' = [call EXCEPT !.out = findRelatedDirectDependencies(
                                        call.in.parseOk, Requires(call.in.req),
                                        Join(call.in.pkg, "/")),
                            !.done = 1]
    /\ UNCHANGED mainVars

(* gomod.FindDirectDependencyFor *)

\* the most lines of the output of "go mod why -m"
MaxLines == 3

\* a line of the output, with what it holds once white space around it is
\* taken off and blank lines and comments count for nothing
WhyLine(text, content) == [text |-> text, content |-> content]

\* an empty line, a line of white space, two comments, the main module, a
\* package, a package with white space around it, and the one-line answer
\* for a module that is not needed
WhyLines ==
    { WhyLine(<<>>, <<>>),
      WhyLine(<<" ", " ">>, <<>>),
      WhyLine(<<"#", " ">> \o PkgV, <<>>),
      WhyLine(<<" ", "#">>, <<>>),
      WhyLine(RootModule, RootModule),
      WhyLine(ImportDP, ImportDP),
      WhyLine(<<" ">> \o PkgV \o <<" ", " ">>, PkgV),
      WhyLine(<<"(", "n", "o", "n", "e", ")">>, <<"(", "n", "o", "n", "e", ")">>) }

WhyCalls ==
    {Called("FindDirectDependencyFor", [err |-> e, lines |-> l]) :
        e \in BOOLEAN, l \in SeqsUpTo(WhyLines, MaxLines)}

Call_FindDirectDependencyFor ==
    /\ call.fn = "FindDirectDependencyFor"
    /\ call.done = 0
    /\ call' = [call EXCEPT
                  !.out = FindDirectDependencyFor(
                              [err |-> call.in.err,
                               lines |-> [i \in 1..Len(call.in.lines) |-> call.in.lines[i].text]]),
                  !.done = 1]
    /\ UNCHANGED mainVars

(* scanner.DiscoverGoModFiles, as runUpdate and runScan call it *)

\* the most exclude patterns of the configuration
MaxPatterns == 2

GoModName == <<"g", "o", ".", "m", "o", "d">>
VendorName == <<"v", "e", "n", "d", "o", "r">>

\* filepath.Match for patterns made of literal characters and "*": "*" stands
\* for any run of characters other than the separator
RECURSIVE Match(_, _)
Match(pattern, name) ==
    IF Len(pattern) = 0 THEN Len(name) = 0
    ELSE IF pattern[1] = "*"
         THEN \E k \in 0..Len(name) :
                  /\ \A i \in 1..k : name[i] # "/"
                  /\ Match(Tail(pattern), SubSeq(name, k + 1, Len(name)))
         ELSE /\ Len(name) > 0
              /\ pattern[1] = name[1]
              /\ Match(Tail(pattern), Tail(name))

\* filepath.Dir of a relative path
Dir(relPath) ==
    LET parts == Split(relPath, "/")
    IN IF Len(parts) = 1 THEN <<".">> ELSE Join(SubSeq(parts, 1, Len(parts) - 1), "/")

\* the directories WalkDir does not go into, discover.go:26-28
SkippedDir(name) ==
    \/ name \in {VendorName, <<"n", "o", "d", "e", "_", "m", "o", "d", "u", "l", "e", "s">>,
                 <<".", "g", "i", "t">>}
    \/ (Len(name) > 0 /\ name[1] = ".")

\* whether the walk reaches the file and it is named go.mod; rootName is
\* the base name of the root directory, which the callback is given first
IsWalkedGoMod(rootName, relPath) ==
    LET parts == Split(relPath, "/")
    IN /\ ~SkippedDir(rootName)
       /\ parts[Len(parts)] = GoModName
       /\ \A i \in 1..(Len(parts) - 1) : ~SkippedDir(parts[i])

\* the exclusion loop, discover.go:41-53
Excluded(relPath, excludePatterns) ==
    \E i \in 1..Len(excludePatterns) :
        Match(excludePatterns[i], relPath) \/ Match(excludePatterns[i], Dir(relPath))

\* the absolute path of the root directory and of a file under it
AbsRoot(rootName) == <<"/">> \o rootName
AbsPath(rootName, relPath) == AbsRoot(rootName) \o <<"/">> \o relPath

\* the walk of DiscoverGoModFiles: files are the files under the root, as
\* relative paths, in the order of the walk; the result holds absolute paths
RECURSIVE WalkDir(_, _, _)
WalkDir(rootName, files, excludePatterns) ==
    IF Len(files) = 0 THEN <<>>
    ELSE (IF IsWalkedGoMod(rootName, files[1]) /\ ~Excluded(files[1], excludePatterns)
          THEN <<AbsPath(rootName, files[1])>> ELSE <<>>)
         \o WalkDir(rootName, Tail(files), excludePatterns)

\* DiscoverGoModFiles; walkOk is whether filepath.Abs and the walk succeeded
DiscoverGoModFiles(rootName, walkOk, files, excludePatterns) ==
    IF ~walkOk THEN [files |-> <<>>, err |-> TRUE]
    ELSE [files |-> WalkDir(rootName, files, excludePatterns), err |-> FALSE]

\* names of the root directory: a plain one, a hidden one, and vendor
RootNames == {<<"r">>, <<".", "h">>, VendorName}

\* the files of a repository, in the order of the walk
WalkUniverse ==
    << <<".", "h", "/">> \o GoModName,
       <<"e", "/", "a", "/">> \o GoModName,
       <<"e", "/", "a", "/", "m", ".", "g", "o">>,
       GoModName,
       <<"t", "/">> \o GoModName,
       VendorName \o <<"/">> \o GoModName >>

\* the files of u whose position is in keep, in the order of u
RECURSIVE Pick(_, _, _)
Pick(u, keep, i) ==
    IF i > Len(u) THEN <<>>
    ELSE (IF i \in keep THEN <<u[i]>> ELSE <<>>) \o Pick(u, keep, i + 1)

Trees == {Pick(WalkUniverse, keep, 1) : keep \in SUBSET (1..Len(WalkUniverse))}

\* values of --exclude: the two README patterns, a directory, and a file name
ExcludePatterns ==
    { <<"e", "/", "*", "/">> \o GoModName,
      <<"t", "/", "*", "*">>,
      <<"t">>,
      GoModName }

DiscoverCalls ==
    {Called("DiscoverGoModFiles",
            [caller |-> c, root |-> r, walkOk |-> ok, files |-> t, exclude |-> x]) :
        c \in {"runUpdate", "runScan"}, r \in RootNames, ok \in BOOLEAN, t \in Trees,
        x \in SeqsUpTo(ExcludePatterns, MaxPatterns)}

\* update.go:44 passes cfg.Path alone, scan.go:47 passes cfg.Path and
\* cfg.Exclude
Call_DiscoverGoModFiles ==
    /\ call.fn = "DiscoverGoModFiles"
    /\ call.done = 0
    /\ call' = [call EXCEPT
                  !.out = IF call.in.caller = "runUpdate"
                          THEN DiscoverGoModFiles(call.in.root, call.in.walkOk, call.in.files,
                                                  <<>>)
                          ELSE DiscoverGoModFiles(call.in.root, call.in.walkOk, call.in.files,
                                                  call.in.exclude),
                  !.done = 1]
    /\ UNCHANGED mainVars

InitFn ==
    /\ Idle
    /\ call \in FilterCalls \cup ConvertCalls \cup NormalizeCalls \cup GoGetCalls \cup BumpCalls
                \cup GenerateCalls \cup RelatedCalls \cup WhyCalls
                \cup DiscoverCalls

NextFn ==
    \/ Call_FilterByCVSS
    \/ Call_convertTrivyOutput
    \/ Call_NormalizeVersion
    \/ Call_GoGet
    \/ Call_IsMajorVersionBump
    \/ Call_Generate
    \/ Call_findRelatedDirectDependencies
    \/ Call_FindDirectDependencyFor
    \/ Call_DiscoverGoModFiles

SpecFn == InitFn /\ [][NextFn]_vars

----------------------------------------------------------------------------
(* Properties *)

\* a finding of the current manifest is being processed, or has just been
InFinding == pc \notin {"config", "noconfig", "discover", "manifest", "verify", "done"}

\* the finding has its status line, and the next finding has not started
Finished == pc = "next"

\* UpdateDirect / UpdateIndirect has returned
Returned == pc \in {"report", "next"}

\* the return statements of updateThroughDirectDep
ChainReturns ==
    {"updateThroughDirectDep:65", "updateThroughDirectDep:97", "updateThroughDirectDep:125",
     "updateThroughDirectDep:145", "updateThroughDirectDep:151", "updateThroughDirectDep:159",
     "updateThroughDirectDep:165", "updateThroughDirectDep:169"}

IsCandCmd(c) == c.by = "updateDirectDepAndVerify"

\* the go get commands of the candidate loop, in order: the j-th is for allDeps[j]
CandCmds == SelectSeq(cmds, IsCandCmd)

\* the status line runUpdate prints for a returned value
Reported == IF ret.err = "nil" THEN "updated" ELSE "failed"

\* C1: when the chain trace has tried every candidate and no scan after a
\* candidate's update came back without the finding, the finding is reported
\* as failed (never as updated).
C1_ExhaustedIsFailed ==
    (Finished /\ nWhy > 0 /\ Len(allDeps) > 0 /\ verified # "absent") => outcome = "failed"

\* C2: UpdateIndirect returns nil only when the latest thing done to the
\* manifest for the finding is followed by a scan, and that scan held no
\* finding with the same vulnerability ID and package name.
C2_NilOnlyAfterClearScan ==
    (Returned /\ vuln.Indirect /\ ret.err = "nil") => verified = "absent"

\* C3: for an indirect finding whose own update succeeded: while the scan
\* after it reports the finding and nothing else has been updated, no success
\* has been declared and control is at, or past, the chain tracer; when that
\* scan does not report it, UpdateIndirect returns nil at once, the finding is
\* reported as updated, the chain tracer is not consulted and the update of
\* the package itself is the only one.
C3_SelfUpdateRescan ==
    (InFinding /\ vuln.Indirect /\ Len(cmds) >= 1 /\ cmds[1].ok) =>
        /\ (Len(cmds) = 1 /\ verified = "present") =>
              /\ ret.err # "nil"
              /\ outcome # "updated"
              /\ (pc = "TC_Why" /\ nWhy = 0) \/ nWhy = 1
        /\ (nWhy = 0 /\ verified = "absent") =>
              /\ Returned
              /\ ret = Return("nil", "UpdateIndirect:54")
              /\ Len(cmds) = 1
              /\ cmds[1].pkg = vuln.PkgName
              /\ Finished => outcome = "updated"

C3_Witness ==
    /\ pc = "TC_Related"
    /\ vuln.Indirect
    /\ Len(cmds) = 1
    /\ cmds[1].ok
    /\ verified = "present"
    /\ nWhy = 1

\* C4: for an indirect finding whose own update command failed, control goes
\* to the chain tracer with no error returned, and what is reported for the
\* finding is what updateThroughDirectDep returns.
C4_SelfUpdateFailureGoesToChain ==
    (InFinding /\ vuln.Indirect /\ Len(cmds) >= 1 /\ ~cmds[1].ok) =>
        \/ pc = "TC_Why" /\ nWhy = 0 /\ ret = NoRet
        \/ /\ nWhy = 1
           /\ Returned => ret.at \in ChainReturns
           /\ Finished => outcome = Reported

C4_Witness ==
    /\ Finished
    /\ vuln.Indirect
    /\ Len(cmds) >= 1
    /\ ~cmds[1].ok
    /\ ret.at = "updateThroughDirectDep:125"
    /\ outcome = "updated"

\* C5: in the candidate loop, a candidate whose go get failed is followed by
\* the next candidate; updateThroughDirectDep returns before every candidate
\* has been tried only when a scan came back without the finding; and then it
\* returns nil and the finding is reported as updated.
C5_CandidateFailureContinues ==
    (InFinding /\ nWhy = 1 /\ Len(allDeps) > 0) =>
        /\ \A j \in 1..Len(CandCmds) :
              (~CandCmds[j].ok /\ j < Len(allDeps)) =>
                  \/ Len(CandCmds) > j
                  \/ pc = "TC_CandGoGet" /\ ci = j + 1 /\ ret = NoRet
        /\ (pc \notin {"TC_CandGoGet", "TC_CandTidy", "TC_CandScan"}
                /\ Len(CandCmds) < Len(allDeps)) => verified = "absent"
        /\ (Returned /\ verified = "absent") =>
              /\ ret = Return("nil", "updateThroughDirectDep:125")
              /\ Finished => outcome = "updated"

C5_Witness ==
    /\ Finished
    /\ Len(CandCmds) = 2
    /\ ~CandCmds[1].ok
    /\ CandCmds[2].ok
    /\ verified = "absent"
    /\ outcome = "updated"

\* C6: a finding that ends without a fix or with a failed update is in the
\* list that is handed to VEX generation.
C6_UnresolvedHoldsEveryUnfixed ==
    (Finished /\ outcome \in {"nofix", "failed"}) => vuln \in SeqRange(unfixedVulns)

\* C7: a filtered finding with an empty fixed version, direct or indirect,
\* dry run or not, is reported as having no fix and appended to the unfixed
\* list, and no go get, go mod tidy, go mod why or scan is run for it.
C7_NoFixSkipped ==
    (InFinding /\ vuln.FixedVersion = <<>>) =>
        /\ pc \in {"vuln", "next"}
        /\ cmds = <<>> /\ tidy = "none" /\ nWhy = 0 /\ verified = "none"
        /\ Finished =>
              /\ outcome = "nofix"
              /\ Len(unfixedVulns) > 0
              /\ unfixedVulns[Len(unfixedVulns)] = vuln

C7_Witness ==
    /\ Finished
    /\ vuln.FixedVersion = <<>>
    /\ ~vuln.Indirect
    /\ cfg.DryRun
    /\ outcome = "nofix"

\* whether a direct finding is one UpdateDirect is called for with a higher
\* major version to go to
DirectMajor ==
    /\ Finished
    /\ ~vuln.Indirect
    /\ outcome \in {"updated", "failed"}
    /\ IsMajorVersionBump(vuln.InstalledVersion, vuln.FixedVersion)

\* C8 as stated: for a direct finding with a major bump, without allow-major
\* UpdateDirect returns the policy error and runs no go get and no tidy; with
\* allow-major, a successful go get makes the finding reported as updated.
C8_AsStated ==
    DirectMajor =>
        IF ~cfg.AllowMajor
        THEN ret = Return("major", "UpdateDirect:82") /\ cmds = <<>> /\ tidy = "none"
        ELSE cmds[1].ok => outcome = "updated"

\* C8, amended: as stated, but with allow-major the finding is reported as
\* updated when go get succeeds and go mod tidy succeeds or is skipped; when
\* go mod tidy fails it is reported as failed.
C8_MajorBumpDirect ==
    DirectMajor =>
        IF ~cfg.AllowMajor
        THEN /\ ret = Return("major", "UpdateDirect:82")
             /\ outcome = "failed"
             /\ cmds = <<>> /\ tidy = "none"
        ELSE /\ Len(cmds) = 1
             /\ (cmds[1].ok /\ tidy # "failed") =>
                    outcome = "updated" /\ ret = Return("nil", "UpdateDirect:100")
             /\ tidy = "failed" => outcome = "failed"

C8_Witness ==
    /\ DirectMajor
    /\ cfg.AllowMajor
    /\ cmds[1].ok
    /\ cmds[1].version = V200
    /\ tidy = "ok"
    /\ outcome = "updated"

\* C9: without allow-major, no go get command names an explicit version whose
\* major version is higher than that of the version the package has.
C9_NoMajorBumpWithoutFlag ==
    ~cfg.AllowMajor =>
        \A i \in 1..Len(cmds) :
            cmds[i].version # Latest => ~IsMajorVersionBump(cmds[i].declared, cmds[i].version)

\* whether a direct finding is one UpdateDirect is called for with no higher
\* major version to go to
DirectMinor ==
    /\ Finished
    /\ ~vuln.Indirect
    /\ outcome \in {"updated", "failed"}
    /\ ~IsMajorVersionBump(vuln.InstalledVersion, vuln.FixedVersion)

\* C10 as stated: for a direct finding with a fix and no major bump, a
\* successful go get makes the finding reported as updated, go mod tidy
\* having run; a failed go get makes it reported as failed; go mod why is not
\* run and no other package is updated.
C10_AsStated ==
    DirectMinor =>
        /\ cmds[1].ok => outcome = "updated" /\ tidy = "ok"
        /\ ~cmds[1].ok => outcome = "failed"
        /\ nWhy = 0
        /\ \A i \in 1..Len(cmds) : cmds[i].pkg = vuln.PkgName

\* C10, amended: a successful go get makes the finding reported as updated
\* when go mod tidy succeeds or skip-tidy is set, go mod tidy having run
\* exactly when skip-tidy is not set; it is reported as failed when go get
\* fails or go mod tidy fails; go mod why is not run and the one go get is
\* for the finding's package.
C10_DirectNoMajor ==
    DirectMinor =>
        /\ Len(cmds) = 1
        /\ cmds[1].pkg = vuln.PkgName
        /\ cmds[1].version = NormalizeVersion(vuln.FixedVersion)
        /\ (cmds[1].ok /\ tidy # "failed") =>
              /\ outcome = "updated"
              /\ tidy = "ok" <=> ~cfg.SkipTidy
        /\ ~cmds[1].ok => outcome = "failed" /\ tidy = "none"
        /\ tidy = "failed" => outcome = "failed"
        /\ nWhy = 0
        /\ verified \in {"none", "stale"}

C10_Witness ==
    /\ DirectMinor
    /\ ~cfg.SkipTidy
    /\ cmds[1].ok
    /\ tidy = "ok"
    /\ outcome = "updated"

\* C11: when the chain tracer has been consulted and UpdateIndirect has
\* returned without success, the namespace fallback has been evaluated (the
\* go.mod has been read for it) and every merged candidate has been tried;
\* a failing go mod why does not end the trace.
C11_TraceErrorFallsBack ==
    (Returned /\ nWhy = 1 /\ ret.err # "nil") =>
        /\ gomod.read
        /\ Len(CandCmds) = Len(allDeps)

\* C12: when the merged candidate list is empty, updateThroughDirectDep
\* returns the error that no direct dependency imports the package, the
\* finding is reported as failed, and the trace has run no go get and no go
\* mod tidy (the only command is the update of the package itself, and
\* nothing has touched the manifest since).
C12_NoCandidatesFails ==
    (InFinding /\ gomod.read /\ Len(allDeps) = 0) =>
        /\ Returned
        /\ ret = Return("nodep", "updateThroughDirectDep:97")
        /\ Len(cmds) = 1
        /\ cmds[1].by = "UpdateIndirect"
        /\ cmds[1].ok => verified = "present"
        /\ ~cmds[1].ok => verified = "none" /\ tidy = "none"
        /\ Finished => outcome = "failed"

C12_Witness ==
    /\ Finished
    /\ gomod.read
    /\ Len(allDeps) = 0
    /\ directDeps = <<>>
    /\ outcome = "failed"

\* C13: the candidate list of the chain trace does not contain the path of
\* the vulnerable package.
C13_CandidatesExcludeVulnerable ==
    (InFinding /\ Len(allDeps) > 0) => vuln.PkgName \notin SeqRange(allDeps)

\* the module of go.mod, as read for the candidate lists, that owns path p:
\* the longest requirement that p starts with, p itself when there is none
OwningModule(p) == importPathToModulePath(TRUE, gomod.seen, p)

\* C14: no two entries of the merged candidate list belong to the same
\* module of go.mod: two raw paths that resolve to one module give one
\* candidate.
C14_CandidatesDistinct ==
    (InFinding /\ gomod.read) =>
        \A i, j \in 1..Len(allDeps) :
            OwningModule(allDeps[i]) = OwningModule(allDeps[j]) => i = j

\* the position of path p in the requirements of the go.mod as read for
\* the candidate lists, 0 if absent
PosInReq(p) ==
    IF \E i \in 1..Len(gomod.seen) : gomod.seen[i].Path = p
    THEN CHOOSE i \in 1..Len(gomod.seen) : gomod.seen[i].Path = p
    ELSE 0

\* the module paths a raw path may stand for: itself when go.mod could not be
\* parsed, else the module importPathToModulePath finds for it
Resolutions(p) == {p, importPathToModulePath(TRUE, gomod.seen, p)}

\* C15: in the merged candidate list the candidate of the explicit trace
\* comes first, the candidates that only the namespace scan gave follow in
\* the order of go.mod, and the go get commands of the candidate loop are for
\* the candidates in the order of the list.
C15_CandidateOrder ==
    (InFinding /\ gomod.read /\ Len(allDeps) > 0) =>
        /\ directDeps # <<>> => allDeps[1] \in Resolutions(directDeps[1])
        /\ \A i, j \in (Len(directDeps) + 1)..Len(allDeps) :
              i < j => (PosInReq(allDeps[i]) > 0 /\ PosInReq(allDeps[i]) < PosInReq(allDeps[j]))
        /\ Len(CandCmds) <= Len(allDeps)
        /\ \A j \in 1..Len(CandCmds) : CandCmds[j].pkg \in Resolutions(allDeps[j])

C15_Witness ==
    /\ InFinding
    /\ Len(directDeps) = 1
    /\ Len(allDeps) = 3
    /\ Len(CandCmds) = 3
    /\ allDeps[2] = PkgD
    /\ allDeps[3] = PkgW

IsChainCmd(c) == c.by \in {"updateDirectDepAndVerify", "updateThroughDirectDep"}

\* the go get commands updateThroughDirectDep issued for the finding, in order
ChainCmds == SelectSeq(cmds, IsChainCmd)

\* the module of go.mod that owns the package a go get command names
ModuleOf(c) == importPathToModulePath(gomod.read, gomod.req, c.pkg)

\* C16: in the chain trace of one finding no module is the target of two
\* go get commands, the code after the candidate loop included.
C16_CandidateUpdatedOnce ==
    \A i, j \in 1..Len(ChainCmds) : ModuleOf(ChainCmds[i]) = ModuleOf(ChainCmds[j]) => i = j

\* C17: once a scan after a candidate's update came back without the finding,
\* updateThroughDirectDep has returned nil: that candidate's go get is the
\* last command, no later candidate has been updated, nothing has touched
\* the manifest since the scan, and the finding is reported as updated.
C17_StopsAtFirstFix ==
    (InFinding /\ nWhy = 1 /\ verified = "absent") =>
        /\ Returned
        /\ ret = Return("nil", "updateThroughDirectDep:125")
        /\ Len(CandCmds) = ci
        /\ ci <= Len(allDeps)
        /\ IsCandCmd(cmds[Len(cmds)])
        /\ cmds[Len(cmds)].ok
        /\ tidy # "failed"
        /\ ~untidied \/ cfg.SkipTidy
        /\ Finished => outcome = "updated"

\* the first of several candidates cleared the finding; the others were left
C17_Witness ==
    /\ Finished
    /\ nWhy = 1
    /\ verified = "absent"
    /\ ci = 1
    /\ Len(allDeps) >= 2
    /\ Len(CandCmds) = 1

\* C18: without skip-tidy, a successful go get that no go mod tidy has
\* followed yet is only found at the call of go mod tidy, so no scan and no
\* other go get comes between; with skip-tidy, go mod tidy is never run.
C18_TidyAfterUpdate ==
    /\ (untidied /\ ~cfg.SkipTidy) => pc \in {"UD_Tidy", "UI_Tidy", "TC_CandTidy", "TL_Tidy"}
    /\ pc \in {"UD_Tidy", "UI_Tidy", "TC_CandTidy", "TL_Tidy"} =>
          (untidied /\ ~cfg.SkipTidy /\ cmds[Len(cmds)].ok)
    /\ cfg.SkipTidy => tidy = "none"

\* a candidate's update has been tidied and the scan is next
C18_Witness ==
    /\ pc = "TC_CandScan"
    /\ ~cfg.SkipTidy
    /\ cmds[Len(cmds)].ok
    /\ IsCandCmd(cmds[Len(cmds)])
    /\ tidy = "ok"
    /\ ~untidied

\* C19: findings are processed and updates verified only for a manifest whose
\* initial scan succeeded; after a failed scan the loop is at the next
\* manifest with no command run; and when the run ends every discovered
\* manifest has been scanned, whatever scans failed before it.
C19_FailedScanSkipsManifest ==
    /\ pc \notin {"config", "noconfig", "discover", "manifest", "done"} =>
          (Len(scans) = mi /\ scans[mi] = "ok")
    /\ pc = "manifest" =>
          /\ Len(scans) = mi - 1
          /\ cmds = <<>> /\ tidy = "none" /\ verified = "none"
    /\ (pc = "done" /\ ~goModFiles.err) => Len(scans) = goModFiles.n

\* the scan of the first manifest failed, and a finding of the second
\* manifest has been updated
C19_Witness ==
    /\ Finished
    /\ mi = 2
    /\ scans = <<"error", "ok">>
    /\ outcome = "updated"
    /\ cmds # <<>>

\* C20: a run that got past discovery exits with a failure status exactly
\* when the initial scan of some manifest failed.
C20_ExitStatusReflectsScanFailure ==
    (pc = "done" /\ ~goModFiles.err) =>
        (exitCode = 1 <=> \E i \in 1..Len(scans) : scans[i] = "error")

\* C21: with DryRun set no go get, no go mod tidy, no go mod why and no
\* verification scan is ever run, for any finding of any manifest: a finding
\* with a fix is only reported as "would update", and updater.Verify is not
\* called at the end of a manifest.
C21_DryRunIssuesNothing ==
    cfg.DryRun =>
        /\ cmds = <<>> /\ tidy = "none" /\ nWhy = 0 /\ verified = "none" /\ ~untidied
        /\ ~gomod.read
        /\ pc \in {"config", "noconfig", "discover", "manifest", "vuln", "next", "done"}
        /\ outcome \in {"none", "nofix", "dryrun"}
        /\ (Finished /\ vuln.FixedVersion # <<>>) => outcome = "dryrun"

\* a finding with a fix has been passed over in a dry run, in the second
\* manifest, after a finding of the first manifest
C21_Witness ==
    /\ cfg.DryRun
    /\ Finished
    /\ mi = 2
    /\ Len(unfixedVulns) > 0
    /\ vuln.FixedVersion # <<>>
    /\ outcome = "dryrun"
    /\ cmds = <<>>

----------------------------------------------------------------------------
(* Properties of the functions taken alone *)

\* the positions of the findings of l whose score is at least t
KeptPositions(l, t) == {i \in 1..Len(l) : l[i].CVSSScore >= t}

\* the k-th smallest element of the set of positions P
KthOf(P, k) == CHOOSE i \in P : Cardinality({j \in P : j <= i}) = k

\* C22: FilterByCVSS returns the findings whose score is at least the
\* threshold, all of them and no other, in the order of the input, and the
\* input list is what it was before the call.
C22_FilterExactInOrder ==
    (call.fn = "FilterByCVSS" /\ call.done >= 1) =>
        LET kept == KeptPositions(call.in.vulns, call.in.threshold)
        IN /\ Len(call.out) = Cardinality(kept)
           /\ \A k \in 1..Len(call.out) : call.out[k] = call.in.vulns[KthOf(kept, k)]
           /\ call.in.vulns = call.in.before

\* a finding at the threshold is kept, one below it is dropped, and the
\* order of the kept ones is that of the input
C22_Witness ==
    /\ call.fn = "FilterByCVSS"
    /\ call.done >= 1
    /\ call.in.threshold = 70
    /\ Len(call.in.vulns) = 3
    /\ call.in.vulns[1].CVSSScore = 71
    /\ call.in.vulns[2].CVSSScore = 69
    /\ call.in.vulns[3].CVSSScore = 70
    /\ Len(call.out) = 2
    /\ call.out[2].CVSSScore = 70

\* C23: filtering the result of FilterByCVSS again with the same threshold
\* gives the same list.
C23_FilterIdempotent ==
    (call.fn = "FilterByCVSS" /\ call.done = 2) => call.out2 = call.out

\* the first call dropped a finding and kept one, and the second call has run
C23_Witness ==
    /\ call.fn = "FilterByCVSS"
    /\ call.done = 2
    /\ Len(call.out) >= 1
    /\ Len(call.out) < Len(call.in.vulns)
    /\ call.out2 = call.out

\* C24: the score of a vulnerability is the largest V3Score of its CVSS
\* sources and 0 without a source; a vulnerability whose score is 0 passes
\* the filter exactly when the threshold is 0 or less.
C24_ScoreIsMaximum ==
    (call.fn = "convertTrivyOutput" /\ call.done >= 1) =>
        /\ Len(call.in.cvss) = 0 => call.out.CVSSScore = 0
        /\ Len(call.in.cvss) > 0 =>
              /\ \E i \in 1..Len(call.in.cvss) : call.in.cvss[i] = call.out.CVSSScore
              /\ \A i \in 1..Len(call.in.cvss) : call.in.cvss[i] <= call.out.CVSSScore
        /\ (call.done = 2 /\ call.out.CVSSScore = 0) =>
              (call.out2 = <<call.out>> <=> call.in.threshold <= 0)
        /\ (call.done = 2 /\ call.out.CVSSScore = 0 /\ call.in.threshold > 0) =>
              call.out2 = <<>>

\* the largest of three different scores, not the last one visited
C24_Witness ==
    /\ call.fn = "convertTrivyOutput"
    /\ call.done >= 1
    /\ call.in.cvss = <<45, 98, 70>>
    /\ call.out.CVSSScore = 98

\* a vulnerability without a CVSS source is dropped by a positive threshold
C24_WitnessNoScore ==
    /\ call.fn = "convertTrivyOutput"
    /\ call.done = 2
    /\ call.in.cvss = <<>>
    /\ call.in.threshold = 1
    /\ call.out2 = <<>>

\* C25: NormalizeVersion of the result of NormalizeVersion is that result,
\* and "latest" and the empty string come back as they are.
C25_NormalizeIdempotent ==
    (call.fn = "NormalizeVersion" /\ call.done >= 1) =>
        /\ call.done = 2 => call.out2 = call.out
        /\ call.in.version \in {Latest, <<>>} => call.out = call.in.version

\* a version without the prefix has got it, and the second call has run
C25_Witness ==
    /\ call.fn = "NormalizeVersion"
    /\ call.done = 2
    /\ call.in.version = B101
    /\ call.out = <<"v">> \o B101
    /\ call.out2 = call.out

\* C26: NormalizeVersion puts "v" before a version whose first character is
\* a digit and returns every other version as it is; the argument of "go get"
\* is the package path, "@" and the version so normalized.
C26_PrefixIffLeadingDigit ==
    LET expected(v) == IF Len(v) > 0 /\ v[1] \in Digits THEN <<"v">> \o v ELSE v
    IN /\ (call.fn = "NormalizeVersion" /\ call.done >= 1) =>
              call.out = expected(call.in.version)
       /\ (call.fn = "GoGet" /\ call.done = 1) =>
              call.out = call.in.pkgPath \o <<"@">> \o expected(call.in.version)

\* a version that starts with neither a digit nor "v" came back as it was
C26_Witness ==
    /\ call.fn = "NormalizeVersion"
    /\ call.done >= 1
    /\ call.in.version = <<"l", "1">>
    /\ call.out = <<"l", "1">>

\* "go get" was given a version that had no prefix with the prefix
C26_WitnessGoGet ==
    /\ call.fn = "GoGet"
    /\ call.done = 1
    /\ call.in.version = B200
    /\ call.out = PkgA \o <<"@">> \o V200

\* C27: for versions made of an optional "v", a major version and a suffix
\* (minor and patch, pre-release, build), IsMajorVersionBump is true exactly
\* when the major version of new is greater than that of old, whichever of
\* the two carries the "v".
C27_BumpIffMajorGreater ==
    (call.fn = "IsMajorVersionBump" /\ call.done = 1 /\ call.in.kind = "semver") =>
        (call.out <=> call.in.newMajor > call.in.oldMajor)

\* 9 to 10 with the prefix on one side only and a pre-release suffix
C27_Witness ==
    /\ call.fn = "IsMajorVersionBump"
    /\ call.done = 1
    /\ call.in.oldVersion = <<"v", "9", ".", "0", ".", "0">>
    /\ call.in.newVersion = <<"1", "0">> \o PreRelease
    /\ call.out

\* C28: IsMajorVersionBump of a version and itself is false, and so is that
\* of a pair whose new major version is not above the old one.
C28_NoBumpWithoutIncrease ==
    (call.fn = "IsMajorVersionBump" /\ call.done = 1) =>
        /\ call.in.oldVersion = call.in.newVersion => ~call.out
        /\ (call.in.kind = "semver" /\ call.in.newMajor <= call.in.oldMajor) => ~call.out

\* a version compared with itself
C28_Witness ==
    /\ call.fn = "IsMajorVersionBump"
    /\ call.done = 1
    /\ call.in.kind = "same"
    /\ call.in.oldVersion = V200
    /\ call.in.newVersion = V200
    /\ ~call.out

\* the collaborator failed for the i-th vulnerability: an error, a response
\* that does not parse, or a status that is not one of the four
AIFailed(r) == r.kind \in {"error", "unparseable"} \/ r.Status \notin validStatuses

\* C29: with the AI client configured, vex.Generate writes one statement per
\* vulnerability, and the statement of a vulnerability for which the
\* collaborator failed has status under_investigation, the generic impact
\* statement and no justification.
C29_AIFailureFallsBack ==
    (call.fn = "Generate" /\ call.done = 1 /\ call.in.aiConfigured) =>
        /\ Len(call.out) = Len(call.in.vulns)
        /\ \A i \in 1..Len(call.out) :
              /\ call.out[i].VulnerabilityID = call.in.vulns[i].VulnerabilityID
              /\ AIFailed(call.in.responses[i]) =>
                    /\ call.out[i].Status = "under_investigation"
                    /\ call.out[i].ImpactStatement = GenericImpact
                    /\ call.out[i].Justification = ""

\* C30: a finding is handled by UpdateIndirect and the chain trace only when
\* the go.mod of the manifest does not require its package directly.
C30_RoutedByManifest ==
    (InFinding /\ gomod.read /\ nWhy >= 1) =>
        ~IsDirectDependency(gomod.req, vuln.PkgName)

----------------------------------------------------------------------------
(* Properties of the chain trace, continued *)

\* the value updateThroughDirectDep returns from its candidate loop
LoopSuccess == Return("nil", "updateThroughDirectDep:125")

\* C32: the success value of the candidate loop tells where the clearing
\* candidate came from; the code has one such value, so it stands for the
\* explicit trace: it is returned only when the candidate that cleared the
\* finding is the one of "go mod why".
C32_SuccessTellsOrigin ==
    (Returned /\ ret = LoopSuccess) => (directDeps # <<>> /\ ci = 1)

\* C34: an indirect finding whose self-update succeeded and whose go mod
\* tidy failed is not returned before the chain trace has been consulted.
C34_TidyFailureGoesToChain ==
    (Returned /\ Len(cmds) >= 1 /\ cmds[1].by = "UpdateIndirect" /\ cmds[1].ok
        /\ Len(cmds) = 1 /\ tidy = "failed") => nWhy >= 1

\* C36: for one finding, the go get commands issued are at most one
\* self-update or direct update plus one per candidate.
C36_UpdatesBounded ==
    InFinding => Len(cmds) <= 1 + Len(allDeps)

\* C37: updateThroughDirectDep never ends in a run-time panic.
C37_NoRuntimeFault == pc # "panic"

\* C40: after a candidate's update and tidy succeeded and the scan that
\* followed failed, the candidate loop has not returned its success value:
\* it is at the next candidate, or past the loop when there is none.
C40_FailedScanIsNotClear ==
    /\ ret = LoopSuccess => verified = "absent"
    /\ (InFinding /\ nWhy = 1 /\ verified = "error" /\ Len(cmds) >= 1
          /\ IsCandCmd(cmds[Len(cmds)]) /\ cmds[Len(cmds)].ok) =>
            /\ pc \notin {"TC_CandScan", "TC_CandTidy"}
            /\ pc = "TC_CandGoGet" => ci = Len(CandCmds) + 1
            /\ pc # "TC_CandGoGet" => ci = Len(allDeps)

\* the scan after the first candidate's update failed, and the loop is at
\* the second candidate
C40_Witness ==
    /\ pc = "TC_CandGoGet"
    /\ nWhy = 1
    /\ verified = "error"
    /\ ci = 2
    /\ Len(CandCmds) = 1
    /\ CandCmds[1].ok
    /\ tidy = "ok"

\* C38: without allow-major, no successful go get of a candidate of the chain
\* trace moves the candidate from the version go.mod declares to a version
\* with a higher major version.
C38_CandidateGateApplied ==
    ~cfg.AllowMajor =>
        \A i \in 1..Len(cmds) :
            (IsCandCmd(cmds[i]) /\ cmds[i].ok) =>
                ~IsMajorVersionBump(cmds[i].declared, LatestAtProxy(cmds[i].pkg))

----------------------------------------------------------------------------
(* Properties of the namespace fallback *)

\* two module paths, as segments, whose first two segments are the same
SameNamespace(a, b) == Len(a) >= 2 /\ Len(b) >= 2 /\ a[1] = b[1] /\ a[2] = b[2]

\* the paths of the entries of l that keep holds for, in the order of l
PathsWhere(l, keep(_)) ==
    LET kept == SelectSeq(l, keep)
    IN [i \in 1..Len(kept) |-> Join(kept[i].segs, "/")]

\* the direct requirements of the call's go.mod in the namespace of its package
RelatedDirect ==
    PathsWhere(call.in.req, LAMBDA e : ~e.indirect /\ SameNamespace(e.segs, call.in.pkg))

\* its indirect requirements in that namespace, the package itself left out
RelatedIndirect ==
    PathsWhere(call.in.req, LAMBDA e : /\ e.indirect
                                       /\ SameNamespace(e.segs, call.in.pkg)
                                       /\ e.segs # call.in.pkg)

\* C33: when go.mod can be read, the namespace fallback gives the direct
\* dependencies whose first two path segments are those of the vulnerable
\* package; only when there is none, the indirect dependencies of that
\* namespace other than the vulnerable package; and none for a package path
\* of fewer than two segments.
C33_NamespaceFallback ==
    (call.fn = "findRelatedDirectDependencies" /\ call.done = 1 /\ call.in.parseOk) =>
        /\ ~call.out.err
        /\ call.out.deps = IF Len(call.in.pkg) < 2 THEN <<>>
                           ELSE IF RelatedDirect # <<>> THEN RelatedDirect
                           ELSE RelatedIndirect

\* no direct dependency in the namespace: the other indirect dependency of
\* the namespace is given, the vulnerable package is not
C33_Witness ==
    /\ call.fn = "findRelatedDirectDependencies"
    /\ call.done = 1
    /\ call.in.parseOk
    /\ call.in.pkg = << <<"g">>, <<"s">>, <<"v">> >>
    /\ call.in.req = << [segs |-> << <<"g">>, <<"s">>, <<"v">> >>, indirect |-> TRUE],
                        [segs |-> << <<"g">>, <<"s">>, <<"d">> >>, indirect |-> TRUE] >>
    /\ call.out.deps = <<PkgD>>

\* a direct dependency in the namespace: the indirect ones are not given
C33_WitnessDirect ==
    /\ call.fn = "findRelatedDirectDependencies"
    /\ call.done = 1
    /\ call.in.parseOk
    /\ call.in.pkg = << <<"g">>, <<"s">>, <<"v">> >>
    /\ call.in.req = << [segs |-> << <<"g">>, <<"s">>, <<"d">> >>, indirect |-> TRUE],
                        [segs |-> << <<"g">>, <<"s">> >>, indirect |-> FALSE] >>
    /\ call.out.deps = << <<"g", "/", "s">> >>

----------------------------------------------------------------------------
(* Properties of the explicit trace *)

\* the lines of the call's output that are neither blank nor comments
ContentLines == SelectSeq(call.in.lines, LAMBDA e : e.content # <<>>)

\* C39: when "go mod why" succeeds, the explicit trace gives no error and at
\* most one candidate: the second line that is neither blank nor a comment,
\* without the white space around it; with fewer than two such lines it
\* gives no candidate.
C39_OneCandidateAfterRoot ==
    (call.fn = "FindDirectDependencyFor" /\ call.done = 1 /\ ~call.in.err) =>
        /\ ~call.out.err
        /\ Len(call.out.deps) <= 1
        /\ call.out.deps = IF Len(ContentLines) >= 2 THEN <<ContentLines[2].content>>
                           ELSE <<>>

\* main module, package, package: the first package after the main module
\* is the one candidate
C39_Witness ==
    /\ call.fn = "FindDirectDependencyFor"
    /\ call.done = 1
    /\ ~call.in.err
    /\ Len(call.in.lines) = 3
    /\ call.in.lines[1].text = RootModule
    /\ call.in.lines[2].text = <<" ">> \o PkgV \o <<" ", " ">>
    /\ call.in.lines[3].text = ImportDP
    /\ call.out.deps = <<PkgV>>

\* one content line only: no candidate and no error
C39_WitnessNone ==
    /\ call.fn = "FindDirectDependencyFor"
    /\ call.done = 1
    /\ ~call.in.err
    /\ Len(call.in.lines) = 3
    /\ call.in.lines[1].text = <<"#", " ">> \o PkgV
    /\ call.in.lines[2].text = <<"(", "n", "o", "n", "e", ")">>
    /\ call.in.lines[3].text = <<>>
    /\ call.out = [deps |-> <<>>, err |-> FALSE]

----------------------------------------------------------------------------
(* Properties of manifest discovery *)

\* whether one of the configured exclude patterns names the path or its
\* directory
MatchesExclude(relPath) ==
    \E i \in 1..Len(call.in.exclude) :
        \/ Match(call.in.exclude[i], relPath)
        \/ Match(call.in.exclude[i], Dir(relPath))

\* whether the discovery of the call gave the file of the given relative path
Discovered(relPath) ==
    \E i \in 1..Len(call.out.files) : call.out.files[i] = AbsPath(call.in.root, relPath)

\* C35: the manifests the update command processes include none that
\* matches a configured exclude pattern.
C35_UpdateHonoursExclude ==
    (call.fn = "DiscoverGoModFiles" /\ call.done = 1 /\ call.in.caller = "runUpdate") =>
        \A i \in 1..Len(call.in.files) :
            Discovered(call.in.files[i]) => ~MatchesExclude(call.in.files[i])

\* the scan command's discovery leaves the excluded manifests out
C35_ScanHonoursExclude ==
    (call.fn = "DiscoverGoModFiles" /\ call.done = 1 /\ call.in.caller = "runScan") =>
        \A i \in 1..Len(call.in.files) :
            Discovered(call.in.files[i]) => ~MatchesExclude(call.in.files[i])

----------------------------------------------------------------------------
(* Properties of the order of processing *)

\* the places of control inside UpdateDirect, UpdateIndirect and the chain
\* trace
UpdatePcs ==
    {"UD_GoGet", "UD_Tidy", "UI_GoGet", "UI_Tidy", "UI_Scan", "TC_Why", "TC_Related",
     "TC_CandGoGet", "TC_CandTidy", "TC_CandScan", "TL_Graph", "TL_Parse", "TL_GoGet", "TL_Tidy"}

\* C31: the findings of a manifest are taken one at a time in the order of
\* the filtered scan: a finding starts only as the first of its manifest or
\* as the one after a finding that has its outcome, it starts with no
\* command, tidy, trace or scan of another finding under way, and the
\* finding and the manifest being worked on change only between findings.
C31_OneFindingAtATime ==
    [][ /\ pc' = "vuln" =>
             /\ vi' \in 1..Len(filtered')
             /\ outcome' = "none" /\ cmds' = <<>> /\ nWhy' = 0
             /\ tidy' = "none" /\ verified' = "none" /\ ~untidied'
             /\ \/ pc = "next" /\ outcome # "none" /\ vi' = vi + 1 /\ filtered' = filtered
                   /\ mi' = mi
                \/ pc = "manifest" /\ vi' = 1
        /\ (vi' # vi \/ mi' # mi \/ filtered' # filtered) =>
             pc \in {"next", "manifest", "verify"}
        /\ pc' \in UpdatePcs =>
             /\ vi' = vi
             /\ outcome' = "none"
             /\ pc \in UpdatePcs \cup {"vuln"}
      ]_vars

\* the first finding was updated through UpdateDirect and the second is in
\* the candidate loop of the chain trace
C31_Witness ==
    /\ Len(filtered) = 2
    /\ vi = 2
    /\ ~filtered[1].Indirect
    /\ filtered[1].FixedVersion # <<>>
    /\ filtered[2].Indirect
    /\ pc = "TC_CandScan"
    /\ outcome = "none"
    /\ cmds # <<>>
    /\ \A i \in 1..Len(cmds) : cmds[i].pkg # filtered[1].PkgName

====
